---- MODULE Spec2Model ----
(***************************************************************************)
(* agentpod: the Session lifecycle (Session.run, In, Out, Close), the      *)
(* Agent's Run with its thought streamer and skill goroutines, and the     *)
(* SkillContextRunner loop, as one state machine.                          *)
(*                                                                         *)
(* Goroutines are processes with a program counter each.  Unbuffered       *)
(* channels are rendezvous: a send and the matching receive are one step.  *)
(* A Go panic that nothing recovers ends the program: `panicked` records   *)
(* it and no action is enabled afterwards.                                 *)
(***************************************************************************)
EXTENDS Integers, Sequences, FiniteSets, TLC

\* ---------------------------------------------------------------- bounds
MaxIn == 2
MaxClosers == 1
MaxChunks == 1
MaxSel == 2
MaxTools == 2
MaxMsgs == 3
MaxEmit == 2
MaxSkills == 2
MaxCalls == 2
MaxStored == 4
IntBits == 4
MaxLimit == 2
MaxOffset == 1

\* ------------------------------------------------------ program constants
maxSkillLoops == 25

\* ------------------------------------------------------------- vocabulary
SkillNames == {"A", "B"}
UnknownName == "X"
Names == SkillNames \cup {UnknownName}
CallIds == 1..MaxSel
Callers == 1..MaxClosers
RunCloser == 0
Closers == {RunCloser} \cup Callers

NoText == ""
DirectText == "direct answer"
StopText == "stop response"
SynthText == "synthesis"
Contents == {NoText, DirectText}

ErrorOccurred == "Error occurred!"
ContentPolicyMessage ==
    "Content policy violation! If this was a mistake, please reach out to the support. Consecutive violations may result in a temporary/permanent ban."
ErrKinds == {"network", "ContentPolicyViolationError"}

NoValidResponse == "Error: The skill execution did not produce a valid response"
ExceededIterations == "Error: The skill exceeded maximum allowed iterations and was stopped."
NetworkRetry == "Error: Network error.\nRetry"
NoResult == "<no entry>"

Response(t, c) == [type |-> t, content |-> c]
EndResponse == Response("end", NoText)
NoResponse == Response("", NoText)

SeqsUpTo(S, n) == UNION {[1..k -> S] : k \in 0..n}

\* The subsequence of seq at the indices in keep, in order.
SubSeqAt(seq, keep) ==
    [k \in 1..Cardinality(keep) |->
       seq[CHOOSE i \in keep : Cardinality({j \in keep : j <= i}) = k]]

VARIABLES
    inIssued, inPending, ctxDone, once, closePc, inClosed, outClosed,
    closeCount, panicked,
    sPc, response, consumed, retrieveCalls, agentRuns,
    outLog, agentSent,
    aPc, completion, dupWarnings, aErr, collated, results, synthCalls, errorsHandled,
    tPc, tChunks,
    kPc, kRet,
    skPc, skScript, skI, skRet,
    rPc, rCalls, rI, gPc, gResult, resultsChan, chanClosed, cPc, history, executed,
    backing, Messages, receiver,
    Items, keys, cameBefore, lastOp, pPc, pI, result, instants,
    conversations, created, messageList,
    runner, runPc, agentScript, held, aggregatedResponse, stored, failed, agentInvoked, outUser,
    table, lastCall,
    givenSkills, agent, panicMsg, ctorPc,
    heap, lists, toolsToCall, mPc, mI, sgPc, skillResults, thPc, collateErr,
    turnCalls, hasStopToolCall, turnStopResponse, stPc

envVars == <<inIssued, inPending, ctxDone, once, closePc, inClosed, outClosed,
             closeCount, panicked>>
sessVars == <<sPc, response, consumed, retrieveCalls, agentRuns>>
logVars == <<outLog, agentSent>>
agentVars == <<aPc, completion, dupWarnings, aErr, collated, results, synthCalls,
               errorsHandled>>
thoughtVars == <<tPc, tChunks>>
skillVars == <<kPc, kRet>>
skVars == <<skPc, skScript, skI, skRet>>
roundVars == <<rPc, rCalls, rI, gPc, gResult, resultsChan, chanClosed, cPc, history,
               executed>>
\* The Session with its Agent, and the functions followed one by one.
runVars == <<envVars, sessVars, logVars, agentVars, thoughtVars, skillVars>>
listVars == <<backing, Messages, receiver>>
memVars == <<Items, keys, cameBefore, lastOp, pPc, pI, result, instants>>
storeVars == <<conversations, created, messageList>>
persistVars == <<runner, runPc, agentScript, held, aggregatedResponse, stored, failed, agentInvoked, outUser>>
sqlVars == <<table, lastCall>>
ctorVars == <<givenSkills, agent, panicMsg, ctorPc>>
mergeVars == <<heap, lists, toolsToCall, mPc, mI, sgPc, skillResults, thPc, collateErr>>
turnVars == <<turnCalls, hasStopToolCall, turnStopResponse, stPc>>
unitVars == <<skVars, roundVars, listVars, memVars, storeVars, persistVars, sqlVars, ctorVars, mergeVars, turnVars>>
vars == <<runVars, unitVars>>

Alive == panicked = "none"

NilCompletion == [content |-> NoText, nilCalls |-> TRUE, toolCalls |-> <<>>]
NoReturn == [msg |-> NoResult, err |-> FALSE]
NoScript == [toolRounds |-> 0, final |-> "none"]

\* A new Session with its Agent, before any goroutine has taken a step.
NewSession ==
    /\ inIssued = 0 /\ inPending = 0 /\ ctxDone = FALSE
    /\ once = "new"
    /\ closePc = [p \in Closers |-> "idle"]
    /\ inClosed = FALSE /\ outClosed = FALSE
    /\ closeCount = [cancel |-> 0, inCh |-> 0, outCh |-> 0]
    /\ panicked = "none"
    /\ sPc = "select" /\ response = NoResponse
    /\ consumed = 0 /\ retrieveCalls = 0 /\ agentRuns = 0
    /\ outLog = <<>> /\ agentSent = <<>>
    /\ aPc = "idle" /\ completion = NilCompletion /\ dupWarnings = 0
    /\ aErr = "none" /\ collated = NoText
    /\ results = [i \in CallIds |-> NoResult]
    /\ synthCalls = 0 /\ errorsHandled = 0
    /\ tPc = "idle" /\ tChunks = 0
    /\ kPc = [i \in CallIds |-> "none"]
    /\ kRet = [i \in CallIds |-> NoReturn]

\* No SkillContextRunner loop is being followed pass by pass.
SkillIdle ==
    /\ skPc = "none" /\ skScript = NoScript /\ skI = 0
    /\ skRet = [msg |-> NoResult, err |-> FALSE, calls |-> 0]

\* The tool calls of one round of a skill's loop: the call's id, what
\* becomes of it (the skill has no tool of that name, the arguments are
\* not JSON, Execute returns an error of one of three kinds, or Execute
\* returns its output) and the text of the parse error or Execute error, or
\* the output.
ToolIds == 1..MaxTools
ToolCallKinds == {"unknownTool", "badArguments", "ignorable", "retryable", "other", "ok"}
ToolTexts == {"text one", "text two"}
RoundsOfCalls == UNION {[1..n -> ToolCallKinds \X ToolTexts] : n \in 0..MaxTools}
RoundCalls(round) ==
    [i \in 1..Len(round) |-> [id |-> i, kind |-> round[i][1], text |-> round[i][2]]]
Nil == [id |-> 0, content |-> <<>>]

\* No round of tool calls is being followed.
RoundIdle ==
    /\ rPc = "none" /\ rCalls = <<>> /\ rI = 1
    /\ gPc = [g \in ToolIds |-> "none"]
    /\ gResult = [g \in ToolIds |-> Nil]
    /\ resultsChan = <<>> /\ chanClosed = FALSE /\ cPc = "none"
    /\ history = <<>>
    /\ executed = [g \in ToolIds |-> 0]

\* The MessageList variables before any list is followed: the two lists h
\* and c, each a slice (a backing array and a length), and the arrays.
Lists == {"h", "c"}
ArrayIds == 1..(Cardinality(Lists) + 1)
NoSlice == [array |-> 0, len |-> 0]

ListIdle ==
    /\ backing = [a \in ArrayIds |-> <<>>]
    /\ Messages = [ml \in Lists |-> NoSlice]
    /\ receiver = "none"

\* The MemoryBlock variables before any block is followed: the blocks of a
\* tree (a root and two blocks it may hold), each with its Items and keys.
Blocks == {"root", "x", "y"}
Keys == {"A", "B", "C"}
NoItem == [valueType |-> "absent"]
NoOp == [op |-> "none", block |-> "none", key |-> "none", ret |-> FALSE]

MemoryIdle ==
    /\ Items = [b \in Blocks |-> [k \in Keys |-> NoItem]]
    /\ keys = [b \in Blocks |-> <<>>]
    /\ cameBefore = [b \in Blocks |-> {}]
    /\ lastOp = NoOp
    /\ pPc = "none" /\ pI = 0 /\ result = <<>> /\ instants = {}

\* The InMemoryStorage variables before any storage is followed.
NoMessages == [called |-> FALSE, limit |-> 0, offset |-> 0, Messages |-> <<>>,
               stored |-> 0, indices |-> <<>>, panicked |-> FALSE]

StorageIdle ==
    /\ conversations = <<>>
    /\ created = 0
    /\ messageList = NoMessages

\* The variables of a run that persists the conversation, before any such
\* run is followed.
NotStored == <<"<not stored>">>

PersistIdle ==
    /\ runner = "none" /\ runPc = "none"
    /\ agentScript = <<>> /\ held = <<>>
    /\ aggregatedResponse = <<>>
    /\ stored = [user |-> NotStored, assistant |-> NotStored]
    /\ failed = {}
    /\ agentInvoked = FALSE
    /\ outUser = <<>>

\* The conversations table of a SQLiteStorage after initDB, and no call yet.
NoRow == [user_message |-> "<no row>", assistant_message |-> "<no row>"]
NoCall == [op |-> "none", session_id |-> "none", err |-> "none"]

SQLiteIdle ==
    /\ table = [sid \in {"s1", "s2"} |-> NoRow]
    /\ lastCall = NoCall

\* No Agent has been constructed.
NoAgent == [prompt |-> "<nil>", skills |-> <<>>]

NewAgentIdle ==
    /\ givenSkills = <<>>
    /\ agent = NoAgent
    /\ panicMsg = <<>>
    /\ ctorPc = "none"

\* The variables of a skill round of Agent.Run before any round is
\* followed: no array, no list, no goroutine.
Canonical == 0

MergeIdle ==
    /\ heap = <<>>
    /\ lists = <<>>
    /\ toolsToCall = <<>>
    /\ mPc = "none" /\ mI = 1
    /\ sgPc = <<>>
    /\ skillResults = <<>>
    /\ thPc = "none"
    /\ collateErr = "none"

\* No model turn of a skill's loop is being followed.
TurnIdle ==
    /\ turnCalls = <<>>
    /\ hasStopToolCall = FALSE
    /\ turnStopResponse = ""
    /\ stPc = "none"

Init ==
    /\ NewSession
    /\ TurnIdle
    /\ MergeIdle
    /\ NewAgentIdle
    /\ SQLiteIdle
    /\ PersistIdle
    /\ StorageIdle
    /\ MemoryIdle
    /\ ListIdle
    /\ SkillIdle
    /\ RoundIdle

\* ------------------------------------------------------------ the caller

\* Session.In: a send on the unbuffered input channel.  The caller stays
\* blocked (inPending) until Session.run receives; a send on a closed
\* channel panics.
In ==
    /\ Alive /\ inIssued < MaxIn
    /\ inIssued' = inIssued + 1
    /\ IF inClosed
         THEN panicked' = "In: send on closed channel" /\ UNCHANGED inPending
         ELSE inPending' = inPending + 1 /\ UNCHANGED panicked
    /\ UNCHANGED <<ctxDone, once, closePc, inClosed, outClosed, closeCount>>
    /\ UNCHANGED <<sessVars, logVars, agentVars, thoughtVars, skillVars, unitVars>>

\* The parent context handed to NewSession is cancelled.
ParentCancel ==
    /\ Alive /\ ~ctxDone
    /\ ctxDone' = TRUE
    /\ UNCHANGED <<inIssued, inPending, once, closePc, inClosed, outClosed,
                   closeCount, panicked>>
    /\ UNCHANGED <<sessVars, logVars, agentVars, thoughtVars, skillVars, unitVars>>

\* -------------------------------------------------------- Session.Close

\* Close without the one-shot: every call runs the body.
CloseEveryCall(p) ==
    /\ closePc' = [closePc EXCEPT ![p] = "closeIn"]
    /\ ctxDone' = TRUE
    /\ closeCount' = [closeCount EXCEPT !.cancel = @ + 1]
    /\ UNCHANGED <<once, sPc>>

\* closeOnce.Do: the first caller runs the body, a caller that arrives
\* while the body runs waits for it, later callers return at once.
CloseOnceDo(p) ==
    /\ once # "running"
    /\ IF once = "new"
         THEN /\ once' = "running"
              /\ closePc' = [closePc EXCEPT ![p] = "closeIn"]
              /\ ctxDone' = TRUE
              /\ closeCount' = [closeCount EXCEPT !.cancel = @ + 1]
              /\ UNCHANGED sPc
         ELSE /\ closePc' = [closePc EXCEPT ![p] = "returned"]
              /\ sPc' = IF p = RunCloser THEN "done" ELSE sPc
              /\ UNCHANGED <<once, ctxDone, closeCount>>

\* A call of Close, by a caller or as the deferred call of Session.run, up
\* to the s.cancel() that opens the one-shot body.
Close(p) ==
    /\ Alive /\ closePc[p] = "idle"
    /\ p = RunCloser => sPc = "deferClose"
    /\ CloseOnceDo(p)
    /\ UNCHANGED <<inIssued, inPending, inClosed, outClosed, panicked>>
    /\ UNCHANGED <<response, consumed, retrieveCalls, agentRuns>>
    /\ UNCHANGED <<logVars, agentVars, thoughtVars, skillVars, unitVars>>

\* close(s.inUserChannel): closing a closed channel panics, and so does
\* every In() that is blocked sending on it.
CloseInChannel(p) ==
    /\ Alive /\ closePc[p] = "closeIn"
    /\ inClosed' = TRUE
    /\ closeCount' = [closeCount EXCEPT !.inCh = @ + 1]
    /\ closePc' = [closePc EXCEPT ![p] = "closeOut"]
    /\ panicked' = IF inClosed THEN "Close: close of closed channel"
                   ELSE IF inPending > 0 THEN "In: send on closed channel"
                   ELSE panicked
    /\ UNCHANGED <<inIssued, inPending, ctxDone, once, outClosed>>
    /\ UNCHANGED <<sessVars, logVars, agentVars, thoughtVars, skillVars, unitVars>>

\* close(s.outUserChannel), the end of the one-shot body.
CloseOutChannel(p) ==
    /\ Alive /\ closePc[p] = "closeOut"
    /\ outClosed' = TRUE
    /\ closeCount' = [closeCount EXCEPT !.outCh = @ + 1]
    /\ closePc' = [closePc EXCEPT ![p] = "returned"]
    /\ once' = "done"
    /\ panicked' = IF outClosed THEN "Close: close of closed channel" ELSE panicked
    /\ sPc' = IF p = RunCloser THEN "done" ELSE sPc
    /\ UNCHANGED <<inIssued, inPending, ctxDone, inClosed>>
    /\ UNCHANGED <<response, consumed, retrieveCalls, agentRuns>>
    /\ UNCHANGED <<logVars, agentVars, thoughtVars, skillVars, unitVars>>

\* ---------------------------------------------------------- Session.run

SendPcs == {"sendEndCtx", "sendEndClosed", "forward", "sendFinalEnd"}

\* The select at the head of Session.run: the context is done, the input
\* channel is closed, or a message arrives.
SessionSelect ==
    /\ Alive /\ sPc = "select"
    /\ \/ /\ ctxDone
          /\ sPc' = "sendEndCtx"
          /\ UNCHANGED <<inPending, consumed>>
       \/ /\ inClosed
          /\ sPc' = "sendEndClosed"
          /\ UNCHANGED <<inPending, consumed>>
       \/ /\ ~inClosed /\ inPending > 0
          /\ inPending' = inPending - 1
          /\ consumed' = consumed + 1
          /\ sPc' = "retrieve"
    /\ UNCHANGED <<inIssued, ctxDone, once, closePc, inClosed, outClosed,
                   closeCount, panicked>>
    /\ UNCHANGED <<response, retrieveCalls, agentRuns>>
    /\ UNCHANGED <<logVars, agentVars, thoughtVars, skillVars, unitVars>>

\* s.memory.Retrieve, then `go s.agent.Run(...)`; on an error run returns.
SessionRetrieve ==
    /\ Alive /\ sPc = "retrieve"
    /\ retrieveCalls' = retrieveCalls + 1
    /\ \E ok \in BOOLEAN :
         IF ok
           THEN /\ sPc' = "recv"
                /\ aPc' = "chooseSkills"
                /\ agentRuns' = agentRuns + 1
           ELSE /\ sPc' = "deferClose"
                /\ UNCHANGED <<aPc, agentRuns>>
    /\ UNCHANGED <<response, consumed>>
    /\ UNCHANGED <<completion, dupWarnings, aErr, collated, results, synthCalls,
                   errorsHandled>>
    /\ UNCHANGED <<envVars, logVars, thoughtVars, skillVars, unitVars>>

\* A forwarding send that keeps the type of the Response and loses its
\* content.
SendTypeOnly == IF sPc = "forward" THEN Response(response.type, NoText) ELSE EndResponse

\* What the send statement Session.run is at puts on the output channel.
SessionSendValue == IF sPc = "forward" THEN response ELSE EndResponse

\* The forwarding loop of src/session.go, which breaks on End only.
BreakOnEndOnly ==
    IF sPc = "forward"
      THEN IF response.type = "end" THEN "sendFinalEnd" ELSE "recv"
      ELSE "deferClose"

\* A Session.run that waits for the next message after its final End.
SelectAgain ==
    IF sPc = "forward"
      THEN IF response.type \in {"error", "end"} THEN "sendFinalEnd" ELSE "recv"
      ELSE IF sPc = "sendFinalEnd" THEN "select" ELSE "deferClose"

\* Where Session.run goes once its send has been received: the forwarding
\* loop breaks on Error and on End, every other send is followed by the
\* deferred Close.
SessionAfterSend ==
    IF sPc = "forward"
      THEN IF response.type \in {"error", "end"} THEN "sendFinalEnd" ELSE "recv"
      ELSE "deferClose"

\* Session.Out: a receive on the output channel.  It meets the send that
\* Session.run is blocked in.  (On the closed channel it returns the zero
\* Response at once and changes nothing.)
Out ==
    /\ Alive
    /\ ~outClosed /\ sPc \in SendPcs
    /\ outLog' = Append(outLog, SessionSendValue)
    /\ sPc' = SessionAfterSend
    /\ UNCHANGED <<response, consumed, retrieveCalls, agentRuns, agentSent>>
    /\ UNCHANGED <<envVars, agentVars, thoughtVars, skillVars, unitVars>>

\* A send of Session.run on the output channel after Close closed it.
SessionSendOnClosed ==
    /\ Alive /\ sPc \in SendPcs /\ outClosed
    /\ panicked' = "Session.run: send on closed channel"
    /\ UNCHANGED <<inIssued, inPending, ctxDone, once, closePc, inClosed, outClosed,
                   closeCount>>
    /\ UNCHANGED <<sessVars, logVars, agentVars, thoughtVars, skillVars, unitVars>>

\* An emitter that sends on the Session's output channel itself, where the
\* caller's Out() receives it.
SendToCaller(msg) ==
    /\ ~outClosed
    /\ outLog' = Append(outLog, msg)
    /\ UNCHANGED <<sPc, response, agentSent, consumed, retrieveCalls, agentRuns>>

\* `for response := range internalChannel`: the receive half of a send on
\* the internal channel.
Deliver(msg) ==
    /\ sPc = "recv"
    /\ sPc' = "forward"
    /\ response' = msg
    /\ agentSent' = Append(agentSent, msg)
    /\ UNCHANGED <<consumed, retrieveCalls, agentRuns, outLog>>

\* ------------------------------------------------------------ Agent.Run

\* The tool calls of a completion: the i-th selection gets call id i.
ToolCallsOf(names) == [i \in 1..Len(names) |-> [id |-> i, name |-> names[i]]]

\* chooseSkills, the loop that keeps the first tool call of each skill name.
RECURSIVE UniqueToolCalls(_, _, _, _)
UniqueToolCalls(calls, i, seenSkills, uniqueToolCalls) ==
    IF i > Len(calls) THEN uniqueToolCalls
    ELSE IF calls[i].name \notin seenSkills
      THEN UniqueToolCalls(calls, i + 1, seenSkills \cup {calls[i].name},
                           Append(uniqueToolCalls, calls[i]))
      ELSE UniqueToolCalls(calls, i + 1, seenSkills, uniqueToolCalls)

\* A duplicate check that keeps the last tool call of each skill name.
KeepLastToolCalls(calls) ==
    SubSeqAt(calls, {i \in 1..Len(calls) :
                       \A j \in (i + 1)..Len(calls) : calls[j].name # calls[i].name})

\* chooseSkills, the duplicate check on the completion's tool calls.
DedupToolCalls(calls) ==
    IF Len(calls) > 1
      THEN LET unique == UniqueToolCalls(calls, 1, {}, <<>>)
           IN  IF Len(unique) < Len(calls) THEN unique ELSE calls
      ELSE calls

\* The content handleLLMError puts in the Error Response.
ErrorContent(kind) ==
    IF kind = "ContentPolicyViolationError" THEN ContentPolicyMessage ELSE ErrorOccurred

\* A model call made under the Session's context: it fails once the
\* context is cancelled, and may fail for any other reason.
CallMayReturn == ~ctxDone

\* chooseSkills up to the model call.  The call fails, or returns a
\* completion with a content and either no tool calls (nil) or a list of
\* them.
ChooseSkills ==
    /\ Alive /\ aPc = "chooseSkills"
    /\ \/ /\ \E kind \in ErrKinds : aErr' = kind
          /\ aPc' = "handleLLMError"
          /\ UNCHANGED completion
       \/ /\ CallMayReturn
          /\ \E content \in Contents :
               completion' = [content |-> content, nilCalls |-> TRUE,
                              toolCalls |-> <<>>]
          /\ aPc' = "dedup"
          /\ UNCHANGED aErr
       \/ /\ CallMayReturn
          /\ \E content \in Contents, names \in SeqsUpTo(Names, MaxSel) :
               completion' = [content |-> content, nilCalls |-> FALSE,
                              toolCalls |-> ToolCallsOf(names)]
          /\ aPc' = "dedup"
          /\ UNCHANGED aErr
    /\ UNCHANGED <<dupWarnings, collated, results, synthCalls, errorsHandled>>
    /\ UNCHANGED <<envVars, sessVars, logVars, thoughtVars, skillVars, unitVars>>

\* chooseSkills after the model call: the duplicate skills are removed from
\* the completion in place, with one warning logged per removed call, and
\* Run goes on with the completion.
ChooseSkillsDedup ==
    /\ Alive /\ aPc = "dedup"
    /\ completion' = [completion EXCEPT !.toolCalls = DedupToolCalls(@)]
    /\ dupWarnings' = Len(completion.toolCalls) - Len(DedupToolCalls(completion.toolCalls))
    /\ aPc' = IF completion.content # NoText THEN "sendContent" ELSE "checkToolCalls"
    /\ UNCHANGED <<aErr, collated, results, synthCalls, errorsHandled>>
    /\ UNCHANGED <<envVars, sessVars, logVars, thoughtVars, skillVars, unitVars>>

\* handleLLMError: the Error Response, then Run returns.
HandleLLMError ==
    /\ Alive /\ aPc = "handleLLMError"
    /\ Deliver(Response("error", ErrorContent(aErr)))
    /\ aPc' = "deferEnd"
    /\ errorsHandled' = errorsHandled + 1
    /\ UNCHANGED <<completion, dupWarnings, aErr, collated, results, synthCalls>>
    /\ UNCHANGED <<envVars, thoughtVars, skillVars, unitVars>>

\* The completion's content goes out as PartialText.
AgentSendContent ==
    /\ Alive /\ aPc = "sendContent"
    /\ Deliver(Response("partial-text", completion.content))
    /\ aPc' = "checkToolCalls"
    /\ UNCHANGED <<completion, dupWarnings, aErr, collated, results, synthCalls,
                   errorsHandled>>
    /\ UNCHANGED <<envVars, thoughtVars, skillVars, unitVars>>

\* GetSkill: the skill a tool call names, if the Agent has it.
KnownSkill(call) == call.name \in SkillNames

\* Run returns when the completion has no tool calls; otherwise it starts
\* the thought streamer and one goroutine per tool call that names a skill.
AgentStartSkills ==
    /\ Alive /\ aPc = "checkToolCalls"
    /\ IF completion.nilCalls
         THEN /\ aPc' = "deferEnd"
              /\ UNCHANGED <<tPc, kPc>>
         ELSE /\ aPc' = "wait"
              /\ tPc' = IF Len(completion.toolCalls) = 0 THEN "done" ELSE "sendStart"
              /\ kPc' = [i \in CallIds |->
                           IF \E j \in 1..Len(completion.toolCalls) :
                                /\ completion.toolCalls[j].id = i
                                /\ KnownSkill(completion.toolCalls[j])
                             THEN "run" ELSE kPc[i]]
    /\ UNCHANGED <<completion, dupWarnings, aErr, collated, results, synthCalls,
                   errorsHandled>>
    /\ UNCHANGED <<tChunks, kRet, unitVars>>
    /\ UNCHANGED <<envVars, sessVars, logVars>>

\* returnSingleToolResult: the text of the one tool call's result; a missing
\* entry is the "unexpected message type" error.
SingleToolResult == results[completion.toolCalls[1].id]

\* wg.Wait, then collateSkillCallResults: several tool calls are summarised
\* by one streaming model call, one tool call returns its result, none is
\* an error.
AgentCollate ==
    /\ Alive /\ aPc = "wait"
    /\ \A i \in CallIds : kPc[i] \in {"none", "done"}
    /\ IF Len(completion.toolCalls) > 1
         THEN /\ synthCalls' = synthCalls + 1
              /\ \E ok \in BOOLEAN :
                   IF ok
                     THEN /\ collated' = SynthText
                          /\ aPc' = "sendResult"
                          /\ UNCHANGED aErr
                     ELSE /\ \E kind \in ErrKinds : aErr' = kind
                          /\ aPc' = "handleLLMError"
                          /\ UNCHANGED collated
         ELSE /\ UNCHANGED synthCalls
              /\ IF Len(completion.toolCalls) = 1 /\ SingleToolResult # NoResult
                   THEN /\ collated' = SingleToolResult
                        /\ aPc' = "sendResult"
                        /\ UNCHANGED aErr
                   ELSE /\ aErr' = "collate"
                        /\ aPc' = "handleLLMError"
                        /\ UNCHANGED collated
    /\ UNCHANGED <<completion, dupWarnings, results, errorsHandled>>
    /\ UNCHANGED <<envVars, sessVars, logVars, thoughtVars, skillVars, unitVars>>

\* The collated result goes out as PartialText.
AgentSendResult ==
    /\ Alive /\ aPc = "sendResult"
    /\ Deliver(Response("partial-text", collated))
    /\ aPc' = "deferEnd"
    /\ UNCHANGED <<completion, dupWarnings, aErr, collated, results, synthCalls,
                   errorsHandled>>
    /\ UNCHANGED <<envVars, thoughtVars, skillVars, unitVars>>

\* The deferred send of End that every return of Run performs.
AgentDeferEnd ==
    /\ Alive /\ aPc = "deferEnd"
    /\ Deliver(EndResponse)
    /\ aPc' = "done"
    /\ UNCHANGED <<completion, dupWarnings, aErr, collated, results, synthCalls,
                   errorsHandled>>
    /\ UNCHANGED <<envVars, thoughtVars, skillVars, unitVars>>

\* ------------------------------------------------ sendThoughtsAboutSkills

ThoughtStart ==
    /\ Alive /\ tPc = "sendStart"
    /\ Deliver(Response("thinking-start", NoText))
    /\ tPc' = "stream"
    /\ UNCHANGED tChunks
    /\ UNCHANGED <<envVars, agentVars, skillVars, unitVars>>

\* stream.Next() yields a chunk with content, sent as Thinking.
ThoughtChunk ==
    /\ Alive /\ tPc = "stream" /\ tChunks < MaxChunks
    /\ CallMayReturn
    /\ Deliver(Response("thinking", "thought"))
    /\ tChunks' = tChunks + 1
    /\ UNCHANGED tPc
    /\ UNCHANGED <<envVars, agentVars, skillVars, unitVars>>

\* The stream is over: the deferred ThinkingEnd.
ThoughtEnd ==
    /\ Alive /\ tPc = "stream"
    /\ Deliver(Response("thinking-end", NoText))
    /\ tPc' = "done"
    /\ UNCHANGED tChunks
    /\ UNCHANGED <<envVars, agentVars, skillVars, unitVars>>

\* ---------------------------------------------------- SkillContextRunner

\* What the model does in a skill's loop: it requests tools only for
\* `toolRounds` rounds and then answers with `final`; the final "tools" is
\* the model that requests a tool on every round and never calls stop.  A
\* final stop call comes with a response, without the response key, with no
\* arguments at all, with arguments that are not JSON, with a response that
\* is not a string, or with the empty response.
StopTurns == {"stop", "stopNoResponse", "stopNoArguments", "stopBadArguments",
              "stopNonString", "stopEmpty"}
FinalTurns == {"error", "nil", "tools"} \cup StopTurns
ToolRounds == {0, 1, maxSkillLoops - 1, maxSkillLoops}
Scripts == [toolRounds : ToolRounds, final : FinalTurns]

\* tc.Function.Arguments of the stop call of a turn: the raw string is
\* empty, not JSON, or a JSON object whose "response" is a string, another
\* type, or absent.
StopArguments(kind) ==
    CASE kind = "stop" -> [raw |-> "json", type |-> "string", value |-> StopText]
      [] kind = "stopEmpty" -> [raw |-> "json", type |-> "string", value |-> NoText]
      [] kind = "stopNonString" -> [raw |-> "json", type |-> "number", value |-> "7"]
      [] kind = "stopNoResponse" -> [raw |-> "json", type |-> "absent", value |-> NoText]
      [] kind = "stopBadArguments" -> [raw |-> "garbage", type |-> "absent", value |-> NoText]
      [] OTHER -> [raw |-> "", type |-> "absent", value |-> NoText]

\* The stopToolResponse the loop captures from the stop call's arguments.
StopResponse(args) ==
    IF args.raw = "" THEN NoText
    ELSE IF args.raw # "json" THEN NoText
    ELSE IF args.type = "string" THEN args.value
    ELSE NoText

\* The completion of round i (counted from 0) under a script: whether the
\* call failed, whether the tool calls are nil, the content, whether one of
\* the tool calls is stop and the response captured from it.
ModelTurn(script, i) ==
    LET kind == IF i < script.toolRounds THEN "tools" ELSE script.final
    IN  [err |-> kind = "error",
         nilCalls |-> kind = "nil",
         content |-> IF kind = "nil" THEN DirectText ELSE NoText,
         hasStop |-> kind \in StopTurns,
         response |-> IF kind \in StopTurns THEN StopResponse(StopArguments(kind))
                      ELSE NoText]

\* A return that hands out the stop response without looking at it.
SkillExitUnchecked(stopToolResponse, calls) ==
    [msg |-> stopToolResponse, err |-> FALSE, calls |-> calls]

\* The return after the loop: the stop response if there is one, else the
\* sentinel.
SkillExit(stopToolResponse, calls) ==
    [msg |-> IF stopToolResponse # NoText THEN stopToolResponse ELSE NoValidResponse,
     err |-> FALSE, calls |-> calls]

\* The loop body with the ceiling check off by one: `if i > maxSkillLoops`.
SkillLoopBodyLateCeiling(script, i, calls) ==
    IF i > maxSkillLoops
      THEN [done |-> TRUE, msg |-> ExceededIterations, err |-> TRUE, calls |-> calls]
      ELSE LET turn == ModelTurn(script, i)
           IN  IF turn.err
                 THEN [done |-> TRUE, msg |-> NetworkRetry, err |-> TRUE,
                       calls |-> calls + 1]
                 ELSE IF turn.hasStop \/ turn.nilCalls
                   THEN [done |-> TRUE,
                         msg |-> IF turn.response # NoText THEN turn.response
                                 ELSE NoValidResponse,
                         err |-> FALSE, calls |-> calls + 1]
                   ELSE [done |-> FALSE, msg |-> NoResult, err |-> FALSE,
                         calls |-> calls + 1]

\* One pass of the loop `for i := 0; ; i++` of SkillContextRunner with
\* `calls` model calls made so far: the ceiling check, the model call, the
\* break on a stop call or on a completion without tool calls.  `done` says
\* whether the function returns in this pass.
SkillLoopBody(script, i, calls) ==
    IF i >= maxSkillLoops
      THEN [done |-> TRUE, msg |-> ExceededIterations, err |-> TRUE, calls |-> calls]
      ELSE LET turn == ModelTurn(script, i)
               exit == SkillExit(turn.response, calls + 1)
           IN  IF turn.err
                 THEN [done |-> TRUE, msg |-> NetworkRetry, err |-> TRUE,
                       calls |-> calls + 1]
                 ELSE IF turn.hasStop \/ turn.nilCalls
                   THEN [done |-> TRUE, msg |-> exit.msg, err |-> exit.err,
                         calls |-> exit.calls]
                   ELSE [done |-> FALSE, msg |-> NoResult, err |-> FALSE,
                         calls |-> calls + 1]

\* The loop run to its return.
RECURSIVE SkillLoop(_, _, _)
SkillLoop(script, i, calls) ==
    LET pass == SkillLoopBody(script, i, calls)
    IN  IF pass.done
          THEN [msg |-> pass.msg, err |-> pass.err, calls |-> pass.calls]
          ELSE SkillLoop(script, i + 1, pass.calls)

\* What SkillContextRunner returns under a script.
SkillReturn(script) ==
    LET ret == SkillLoop(script, 0, 0) IN [msg |-> ret.msg, err |-> ret.err]

\* The returns of SkillContextRunner over all scripts, and over those whose
\* first model call fails.
SkillReturns == {SkillReturn(script) : script \in Scripts}
SkillReturnsCancelled ==
    {SkillReturn(script) : script \in {x \in Scripts : x.toolRounds = 0 /\ x.final = "error"}}

\* A tool goroutine of a skill's round sends the StatusMessage of its tool
\* on the channel SkillContextRunner was given, which is the internal
\* channel.  The round comes from a completion, so the model call returned
\* under a live context.  One Status per skill is followed.
ToolStatus(id) ==
    /\ Alive /\ kPc[id] = "run"
    /\ CallMayReturn
    /\ Deliver(Response("status", "status"))
    /\ kPc' = [kPc EXCEPT ![id] = "status"]
    /\ UNCHANGED kRet
    /\ UNCHANGED <<envVars, agentVars, thoughtVars, unitVars>>

\* The skill goroutine of Agent.Run: SkillContextRunner runs to its return
\* and the result is stored under the call id only when err is nil.  The
\* goroutine shares nothing with the others until then.
SkillContextRunner(id) ==
    /\ Alive /\ kPc[id] \in {"run", "status"}
    /\ \E ret \in IF CallMayReturn THEN SkillReturns ELSE SkillReturnsCancelled :
         /\ kPc' = [kPc EXCEPT ![id] = "done"]
         /\ kRet' = [kRet EXCEPT ![id] = ret]
         /\ results' = IF ret.err THEN results ELSE [results EXCEPT ![id] = ret.msg]
    /\ UNCHANGED <<aPc, completion, dupWarnings, aErr, collated, synthCalls,
                   errorsHandled>>
    /\ UNCHANGED <<envVars, sessVars, logVars, thoughtVars, unitVars>>

\* ------------------------------------ SkillContextRunner, pass by pass

\* The scripts of one SkillContextRunner call followed pass by pass: the
\* model asks for tools on any number of rounds up to one more than the
\* ceiling before its final turn.
LoopScripts == [toolRounds : 0..(maxSkillLoops + 1), final : FinalTurns]

SkillInit ==
    /\ NewSession
    /\ TurnIdle
    /\ MergeIdle
    /\ NewAgentIdle
    /\ SQLiteIdle
    /\ PersistIdle
    /\ StorageIdle
    /\ MemoryIdle
    /\ ListIdle
    /\ RoundIdle
    /\ skPc = "loop" /\ skI = 0
    /\ skScript \in LoopScripts
    /\ skRet = [msg |-> NoResult, err |-> FALSE, calls |-> 0]

\* One pass of the loop: the function returns, or i++.
SkillPass ==
    /\ skPc = "loop"
    /\ skI <= maxSkillLoops + 1
    /\ LET pass == SkillLoopBody(skScript, skI, skRet.calls)
       IN  /\ skRet' = [msg |-> pass.msg, err |-> pass.err, calls |-> pass.calls]
           /\ skPc' = IF pass.done THEN "returned" ELSE "loop"
           /\ skI' = IF pass.done THEN skI ELSE skI + 1
    /\ UNCHANGED skScript
    /\ UNCHANGED <<runVars, roundVars, listVars, memVars, storeVars, persistVars, sqlVars, ctorVars, mergeVars, turnVars>>

SkillNext == SkillPass

SkillSpec == SkillInit /\ [][SkillNext]_vars /\ WF_vars(SkillPass)

\* ------------------------- SkillContextRunner, one round of tool calls

\* A tool message for a call id.
ToolMessage(content, id) == [id |-> id, content |-> content]

\* Whether the goroutine of a call reaches tool.Execute: the tool exists
\* and the arguments parse.
ReachesExecute(call) == call.kind \notin {"unknownTool", "badArguments"}

\* What the goroutine of a call sends on resultsChan: nil when GetTool,
\* json.Unmarshal or Execute fails, else the tool message with the output.
GoroutineResult(call) ==
    IF call.kind = "ok" THEN ToolMessage(<<call.text>>, call.id) ELSE Nil

\* The loop variable, for a goroutine that reads it instead of its
\* argument.
LoopVariable(g) == rCalls[IF rI <= Len(rCalls) THEN rI ELSE Len(rCalls)]

\* The tool call goroutine g works on: the argument of its go statement.
GoroutineCall(g) == rCalls[g]

RoundInit ==
    /\ NewSession
    /\ TurnIdle
    /\ MergeIdle
    /\ NewAgentIdle
    /\ SQLiteIdle
    /\ PersistIdle
    /\ StorageIdle
    /\ MemoryIdle
    /\ ListIdle
    /\ SkillIdle
    /\ rPc = "spawn" /\ rI = 1
    /\ \E round \in RoundsOfCalls : rCalls = RoundCalls(round)
    /\ gPc = [g \in ToolIds |-> "none"]
    /\ gResult = [g \in ToolIds |-> Nil]
    /\ resultsChan = <<>> /\ chanClosed = FALSE /\ cPc = "none"
    /\ history = <<>>
    /\ executed = [g \in ToolIds |-> 0]

\* `for _, toolCall := range toolsToCall`: wg.Add(1) and the go statement.
RoundSpawn ==
    /\ rPc = "spawn" /\ rI <= Len(rCalls)
    /\ gPc' = [gPc EXCEPT ![rI] = "run"]
    /\ rI' = rI + 1
    /\ UNCHANGED <<rPc, rCalls, gResult, resultsChan, chanClosed, cPc, history,
                   executed>>
    /\ UNCHANGED <<runVars, skVars, listVars, memVars, storeVars, persistVars, sqlVars, ctorVars, mergeVars, turnVars>>

\* After the loop: the goroutine that closes resultsChan starts and the
\* runner begins to range over the channel.
RoundStartCollect ==
    /\ rPc = "spawn" /\ rI > Len(rCalls)
    /\ rPc' = "collect"
    /\ cPc' = "wait"
    /\ UNCHANGED <<rCalls, rI, gPc, gResult, resultsChan, chanClosed, history,
                   executed>>
    /\ UNCHANGED <<runVars, skVars, listVars, memVars, storeVars, persistVars, sqlVars, ctorVars, mergeVars, turnVars>>

\* A tool goroutine up to its send: GetTool, json.Unmarshal, Execute.
ToolRun(g) ==
    /\ gPc[g] = "run"
    /\ LET call == GoroutineCall(g)
       IN  /\ executed' = IF ReachesExecute(call)
                            THEN [executed EXCEPT ![call.id] = @ + 1]
                            ELSE executed
           /\ gResult' = [gResult EXCEPT ![g] = GoroutineResult(call)]
    /\ gPc' = [gPc EXCEPT ![g] = "send"]
    /\ UNCHANGED <<rPc, rCalls, rI, resultsChan, chanClosed, cPc, history>>
    /\ UNCHANGED <<runVars, skVars, listVars, memVars, storeVars, persistVars, sqlVars, ctorVars, mergeVars, turnVars>>

\* A channel with room for one value less than there are calls.
ResultsCapOneShort(calls) == Len(calls) - 1

\* `make(chan *openai.ChatCompletionToolMessageParam, len(toolsToCall))`
ResultsCap(calls) == Len(calls)

\* The goroutine's send on resultsChan, which goes through when the buffer
\* has room, and the deferred wg.Done.
ToolSend(g) ==
    /\ gPc[g] = "send"
    /\ Len(resultsChan) < ResultsCap(rCalls)
    /\ resultsChan' = Append(resultsChan, gResult[g])
    /\ gPc' = [gPc EXCEPT ![g] = "done"]
    /\ UNCHANGED <<rPc, rCalls, rI, gResult, chanClosed, cPc, history, executed>>
    /\ UNCHANGED <<runVars, skVars, listVars, memVars, storeVars, persistVars, sqlVars, ctorVars, mergeVars, turnVars>>

\* wg.Wait returns once every goroutine is done; close(resultsChan).
CloseResults ==
    /\ cPc = "wait"
    /\ \A g \in ToolIds : gPc[g] \in {"none", "done"}
    /\ chanClosed' = TRUE
    /\ cPc' = "done"
    /\ UNCHANGED <<rPc, rCalls, rI, gPc, gResult, resultsChan, history, executed>>
    /\ UNCHANGED <<runVars, skVars, listVars, memVars, storeVars, persistVars, sqlVars, ctorVars, mergeVars, turnVars>>

\* A range loop that a nil result ends.
RoundReceiveUntilNil ==
    /\ rPc = "collect" /\ resultsChan # <<>>
    /\ resultsChan' = Tail(resultsChan)
    /\ history' = IF Head(resultsChan) = Nil THEN history
                  ELSE Append(history, Head(resultsChan))
    /\ rPc' = IF Head(resultsChan) = Nil THEN "done" ELSE rPc
    /\ UNCHANGED <<rCalls, rI, gPc, gResult, chanClosed, cPc, executed>>
    /\ UNCHANGED <<runVars, skVars, listVars, memVars, storeVars, persistVars, sqlVars, ctorVars, mergeVars, turnVars>>

\* `for result := range resultsChan`: a nil result is skipped, any other is
\* added to the message history.
RoundReceive ==
    /\ rPc = "collect" /\ resultsChan # <<>>
    /\ resultsChan' = Tail(resultsChan)
    /\ history' = IF Head(resultsChan) = Nil THEN history
                  ELSE Append(history, Head(resultsChan))
    /\ UNCHANGED <<rPc, rCalls, rI, gPc, gResult, chanClosed, cPc, executed>>
    /\ UNCHANGED <<runVars, skVars, listVars, memVars, storeVars, persistVars, sqlVars, ctorVars, mergeVars, turnVars>>

\* The range loop ends when the channel is closed and empty.
RoundEnd ==
    /\ rPc = "collect" /\ resultsChan = <<>> /\ chanClosed
    /\ rPc' = "done"
    /\ UNCHANGED <<rCalls, rI, gPc, gResult, resultsChan, chanClosed, cPc, history,
                   executed>>
    /\ UNCHANGED <<runVars, skVars, listVars, memVars, storeVars, persistVars, sqlVars, ctorVars, mergeVars, turnVars>>

RoundNext ==
    \/ RoundSpawn
    \/ RoundStartCollect
    \/ \E g \in ToolIds : ToolRun(g)
    \/ \E g \in ToolIds : ToolSend(g)
    \/ CloseResults
    \/ RoundReceive
    \/ RoundEnd

RoundSpec == RoundInit /\ [][RoundNext]_vars /\ WF_vars(RoundNext)

\* ------------------- SkillContextRunner, the tool calls one after another

DoNotRetry == "Error occurred while running. Do not retry"
\* The id of the skill's own call, which is none of the ids of the tool
\* calls of a turn.
SkillToolCallID == MaxTools + 1

\* MessageWhenToolError and MessageWhenToolErrorWithRetry; the content of
\* the second is fmt.Sprintf("Error: %s.\nRetry", errorString), kept as its
\* pieces.
MessageWhenToolError(toolCallID) == ToolMessage(<<DoNotRetry>>, toolCallID)
MessageWhenToolErrorWithRetry(errorString, toolCallID) ==
    ToolMessage(<<"Error: ", errorString, ".\nRetry">>, toolCallID)

\* A switch on the error of Execute that has no case for RetryableError.
ExecuteErrorAlwaysGeneric(call) == MessageWhenToolError(call.id)

\* The switch on the error Execute returned: errors.As finds an
\* IgnorableError, else a RetryableError, else neither.
ExecuteErrorMessage(call) ==
    IF call.kind = "ignorable" THEN MessageWhenToolError(call.id)
    ELSE IF call.kind = "retryable"
      THEN MessageWhenToolErrorWithRetry(call.text, call.id)
      ELSE MessageWhenToolError(call.id)

\* The message the loop over the tool calls adds to the history for one
\* call.
ToolCallMessage(call) ==
    IF call.kind = "unknownTool" THEN MessageWhenToolError(call.id)
    ELSE IF call.kind = "badArguments"
      THEN MessageWhenToolErrorWithRetry(call.text, SkillToolCallID)
    ELSE IF call.kind = "ok" THEN ToolMessage(<<call.text>>, call.id)
    ELSE ExecuteErrorMessage(call)

SeqInit ==
    /\ NewSession
    /\ TurnIdle
    /\ MergeIdle
    /\ NewAgentIdle
    /\ SQLiteIdle
    /\ PersistIdle
    /\ StorageIdle
    /\ MemoryIdle
    /\ ListIdle
    /\ SkillIdle
    /\ rPc = "sequential" /\ rI = 1
    /\ \E round \in RoundsOfCalls : rCalls = RoundCalls(round)
    /\ gPc = [g \in ToolIds |-> "none"]
    /\ gResult = [g \in ToolIds |-> Nil]
    /\ resultsChan = <<>> /\ chanClosed = FALSE /\ cPc = "none"
    /\ history = <<>>
    /\ executed = [g \in ToolIds |-> 0]

\* One pass of `for _, toolCall := range ...ToolCalls`.
SeqToolCall ==
    /\ rPc = "sequential" /\ rI <= Len(rCalls)
    /\ history' = Append(history, ToolCallMessage(rCalls[rI]))
    /\ executed' = IF ReachesExecute(rCalls[rI])
                     THEN [executed EXCEPT ![rCalls[rI].id] = @ + 1]
                     ELSE executed
    /\ rI' = rI + 1
    /\ UNCHANGED <<rPc, rCalls, gPc, gResult, resultsChan, chanClosed, cPc>>
    /\ UNCHANGED <<runVars, skVars, listVars, memVars, storeVars, persistVars, sqlVars, ctorVars, mergeVars, turnVars>>

\* The loop over the tool calls is over.
SeqEnd ==
    /\ rPc = "sequential" /\ rI > Len(rCalls)
    /\ rPc' = "done"
    /\ UNCHANGED <<rCalls, rI, gPc, gResult, resultsChan, chanClosed, cPc, history,
                   executed>>
    /\ UNCHANGED <<runVars, skVars, listVars, memVars, storeVars, persistVars, sqlVars, ctorVars, mergeVars, turnVars>>

SeqNext == SeqToolCall \/ SeqEnd

SeqSpec == SeqInit /\ [][SeqNext]_vars

\* ----------------------------------------------------------- MessageList

\* The messages a list holds, the message AddFirst builds from its prompt,
\* and the zero value of the cells of a new array that were never written.
MessageKinds == {"user message", "tool message"}
DeveloperPrompt == "developer message"
ZeroMessage == "nil"

\* len(ml.Messages), cap(ml.Messages), and All(): the entries of the list.
LenOf(ml) == Messages[ml].len
CapOf(ml) == Len(backing[Messages[ml].array])
All(ml) == SubSeq(backing[Messages[ml].array], 1, LenOf(ml))

\* An array no list refers to, for an allocation.
NewArray == CHOOSE a \in ArrayIds : \A ml \in Lists : Messages[ml].array # a

\* The capacity append gives the array it allocates.
GrowCap(old, needed) == IF needed > 2 * old THEN needed ELSE 2 * old

\* A slice value a method builds: the array it is in, its length, and what
\* the array holds.
Slice(a, n, cells) == [array |-> a, len |-> n, store |-> cells]

\* append(literal, elems...) with a slice literal as its first operand: the
\* literal's own array when there is nothing to append, else a new one.
AppendToLiteral(literal, elems) ==
    LET n == Len(literal) + Len(elems)
        c == IF Len(elems) = 0 THEN Len(literal) ELSE GrowCap(Len(literal), n)
    IN  Slice(NewArray, n,
              [k \in 1..c |-> IF k <= Len(literal) THEN literal[k]
                              ELSE IF k <= n THEN elems[k - Len(literal)]
                              ELSE ZeroMessage])

\* append(ml.Messages, msgs...): in place when the capacity allows, else in
\* a new array that receives a copy.
AppendTo(ml, msgs) ==
    LET n == LenOf(ml) + Len(msgs)
        old == backing[Messages[ml].array]
    IN  IF n <= CapOf(ml)
          THEN Slice(Messages[ml].array, n,
                     [k \in 1..CapOf(ml) |->
                        IF k > LenOf(ml) /\ k <= n THEN msgs[k - LenOf(ml)]
                        ELSE old[k]])
          ELSE Slice(NewArray, n,
                     [k \in 1..GrowCap(CapOf(ml), n) |->
                        IF k <= LenOf(ml) THEN old[k]
                        ELSE IF k <= n THEN msgs[k - LenOf(ml)]
                        ELSE ZeroMessage])

\* The name an array goes by: the arrays in use are numbered in the order
\* of the lists that hold them, so that two lists have the same number
\* exactly when they share an array.
ArrayName(fields, a) ==
    IF a = fields["h"].array THEN 1 ELSE 2

\* `ml.Messages = slice`: the field, the cells the slice wrote, and the
\* arrays left without a reference are dropped.
AssignMessages(ml, slice) ==
    LET fields == [Messages EXCEPT ![ml] = [array |-> slice.array, len |-> slice.len]]
        written == [backing EXCEPT ![slice.array] = slice.store]
    IN  /\ Messages' = [x \in Lists |->
                          IF fields[x] = NoSlice THEN NoSlice
                          ELSE [array |-> ArrayName(fields, fields[x].array),
                                len |-> fields[x].len]]
        /\ backing' = [n \in ArrayIds |->
                         IF \E x \in Lists : /\ fields[x] # NoSlice
                                             /\ ArrayName(fields, fields[x].array) = n
                           THEN written[CHOOSE a \in ArrayIds :
                                          \E x \in Lists :
                                              /\ fields[x].array = a
                                              /\ ArrayName(fields, a) = n]
                           ELSE <<>>]

\* The lists that exist.
Made == {ml \in Lists : Messages[ml] # NoSlice}

\* A list right after its construction: NewMessageList, or the history
\* Session.run builds around the user message.
ListInit ==
    /\ NewSession
    /\ TurnIdle
    /\ MergeIdle
    /\ NewAgentIdle
    /\ SQLiteIdle
    /\ PersistIdle
    /\ StorageIdle
    /\ MemoryIdle
    /\ SkillIdle
    /\ RoundIdle
    /\ \E first \in {<<>>, <<"user message">>} :
         /\ backing = [a \in ArrayIds |-> IF a = 1 THEN first ELSE <<>>]
         /\ Messages = [ml \in Lists |->
                          IF ml = "h" THEN [array |-> 1, len |-> Len(first)]
                          ELSE NoSlice]
    /\ receiver = "none"

Add(ml, msgs) ==
    /\ ml \in Made
    /\ LenOf(ml) + Len(msgs) <= MaxMsgs
    /\ AssignMessages(ml, AppendTo(ml, msgs))
    /\ receiver' = ml
    /\ UNCHANGED <<runVars, skVars, roundVars, memVars, storeVars, persistVars, sqlVars, ctorVars, mergeVars, turnVars>>

AddFirst(ml) ==
    /\ ml \in Made
    /\ LenOf(ml) + 1 <= MaxMsgs
    /\ AssignMessages(ml, AppendToLiteral(<<DeveloperPrompt>>, All(ml)))
    /\ receiver' = ml
    /\ UNCHANGED <<runVars, skVars, roundVars, memVars, storeVars, persistVars, sqlVars, ctorVars, mergeVars, turnVars>>

\* ReplaceAt writes the cell in place, or returns "index out of range".
ReplaceAt(ml, index, newMsg) ==
    /\ ml \in Made
    /\ IF index < 0 \/ index >= LenOf(ml)
         THEN UNCHANGED <<backing, Messages>>
         ELSE /\ backing' = [backing EXCEPT ![Messages[ml].array][index + 1] = newMsg]
              /\ UNCHANGED Messages
    /\ receiver' = ml
    /\ UNCHANGED <<runVars, skVars, roundVars, memVars, storeVars, persistVars, sqlVars, ctorVars, mergeVars, turnVars>>

Clear(ml) ==
    /\ ml \in Made
    /\ AssignMessages(ml, Slice(NewArray, 0, <<>>))
    /\ receiver' = ml
    /\ UNCHANGED <<runVars, skVars, roundVars, memVars, storeVars, persistVars, sqlVars, ctorVars, mergeVars, turnVars>>

\* A Clone that takes the slice of the list as it is.
CloneSameSlice(ml) == Slice(Messages[ml].array, LenOf(ml), backing[Messages[ml].array])

\* Clone: the entries appended to an empty slice literal.
Clone(ml) == AppendToLiteral(<<>>, All(ml))

\* c := h.Clone()
CloneCall ==
    /\ AssignMessages("c", Clone("h"))
    /\ receiver' = "Clone"
    /\ UNCHANGED <<runVars, skVars, roundVars, memVars, storeVars, persistVars, sqlVars, ctorVars, mergeVars, turnVars>>

ListNext ==
    \/ \E ml \in Lists, msgs \in SeqsUpTo(MessageKinds, 2) : Add(ml, msgs)
    \/ \E ml \in Lists : AddFirst(ml)
    \/ \E ml \in Lists :
         \E index \in -1..LenOf(ml), newMsg \in MessageKinds :
             ReplaceAt(ml, index, newMsg)
    \/ \E ml \in Lists : Clear(ml)
    \/ CloneCall

ListSpec == ListInit /\ [][ListNext]_vars

\* ----------------------------------------------------------- MemoryBlock

\* The strings stored, and the blocks the root may hold.
StringVals == {"v1", "v2"}
Nested == Blocks \ {"root"}

NewStringValue(str) == [valueType |-> "StringType", stringVal |-> str]
NewBlockValue(block) == [valueType |-> "BlockType", blockVal |-> block]

\* `_, exists := mb.Items[key]`
Exists(mb, key) == Items[mb][key] # NoItem

\* mb.Items[k] as Parse reads it: a key the map does not hold yields the
\* zero MemoryValue, which is a string value.
ItemAt(items, mb, k) ==
    IF items[mb][k] = NoItem THEN NewStringValue("") ELSE items[mb][k]

\* A line of the string Parse builds: the indentation level and what the
\* format writes after it.
OpenTag(level, tagName) == [level |-> level, kind |-> "open", name |-> tagName, value |-> ""]
CloseTag(level, tagName) == [level |-> level, kind |-> "close", name |-> tagName, value |-> ""]
StringLine(level, k, v) == [level |-> level, kind |-> "string", name |-> k, value |-> v]

RECURSIVE parseWithIndent(_, _, _, _, _)
RECURSIVE ParseItems(_, _, _, _, _)

\* One pass of the loop of parseWithIndent: the line of a string value, or
\* the nested block under the key as its tag.
ParseItem(items, ks, mb, level, k) ==
    LET v == ItemAt(items, mb, k)
    IN  IF v.valueType = "StringType"
          THEN <<StringLine(level + 1, k, v.stringVal)>>
          ELSE parseWithIndent(items, ks, v.blockVal, level + 1, k)

\* The loop over mb.keys from index i on.
ParseItems(items, ks, mb, level, i) ==
    IF i > Len(ks[mb]) THEN <<>>
    ELSE ParseItem(items, ks, mb, level, ks[mb][i])
           \o ParseItems(items, ks, mb, level, i + 1)

parseWithIndent(items, ks, mb, level, tagName) ==
    <<OpenTag(level, tagName)>> \o ParseItems(items, ks, mb, level, 1)
        \o <<CloseTag(level, tagName)>>

\* Parse of a block of the tree as it is now.
Parse(mb) == parseWithIndent(Items, keys, mb, 0, "Memory")

\* The read lock Parse holds on the root from its call to its return; the
\* lock of a nested block is held while that block is rendered.
RLocked(mb) == mb = "root" /\ pPc = "keys"

\* What a mutator leaves behind besides the block: which of the keys the
\* block holds came in before which, what was called and returned, and,
\* while a Parse is under way, the serialization of the tree at this instant.
Mutated(op, mb, key, ret) ==
    /\ cameBefore' =
         [cameBefore EXCEPT ![mb] =
            IF op = "Delete"
              THEN {pair \in @ : key \notin {pair[1], pair[2]}}
              ELSE IF Exists(mb, key) THEN @
              ELSE @ \cup {<<k, key>> : k \in {x \in Keys : Exists(mb, x)}}]
    /\ lastOp' = [op |-> op, block |-> mb, key |-> key, ret |-> ret]
    /\ instants' = IF pPc = "keys"
                     THEN instants \cup {parseWithIndent(Items', keys', "root", 0, "Memory")}
                     ELSE instants
    /\ UNCHANGED <<pPc, pI, result>>

\* An add that appends the key whether the block has it or not.
AppendKeyAlways(mb, key) == Append(keys[mb], key)

\* `if _, exists := mb.Items[key]; !exists { mb.keys = append(mb.keys, key) }`
AppendKey(mb, key) == IF ~Exists(mb, key) THEN Append(keys[mb], key) ELSE keys[mb]

AddString(mb, key, value) ==
    /\ ~RLocked(mb)
    /\ keys' = [keys EXCEPT ![mb] = AppendKey(mb, key)]
    /\ Items' = [Items EXCEPT ![mb][key] = NewStringValue(value)]
    /\ Mutated("AddString", mb, key, FALSE)
    /\ UNCHANGED <<runVars, skVars, roundVars, listVars, storeVars, persistVars, sqlVars, ctorVars, mergeVars, turnVars>>

AddBlock(mb, key, value) ==
    /\ ~RLocked(mb)
    /\ keys' = [keys EXCEPT ![mb] = AppendKey(mb, key)]
    /\ Items' = [Items EXCEPT ![mb][key] = NewBlockValue(value)]
    /\ Mutated("AddBlock", mb, key, FALSE)
    /\ UNCHANGED <<runVars, skVars, roundVars, listVars, storeVars, persistVars, sqlVars, ctorVars, mergeVars, turnVars>>

\* A Delete whose loop cuts nothing out.
RemoveNoKey(ks, key) == ks

\* The loop of Delete: the first index that holds the key is cut out.
RemoveKey(ks, key) ==
    IF \E i \in 1..Len(ks) : ks[i] = key
      THEN LET i == CHOOSE j \in 1..Len(ks) :
                        ks[j] = key /\ \A h \in 1..(j - 1) : ks[h] # key
           IN  SubSeq(ks, 1, i - 1) \o SubSeq(ks, i + 1, Len(ks))
      ELSE ks

\* A Delete that leaves the map as it is.
KeepItem(mb, key) == Items[mb]

\* delete(mb.Items, key)
DeleteItem(mb, key) == [Items[mb] EXCEPT ![key] = NoItem]

Delete(mb, key) ==
    /\ ~RLocked(mb)
    /\ IF Exists(mb, key)
         THEN /\ Items' = [Items EXCEPT ![mb] = DeleteItem(mb, key)]
              /\ keys' = [keys EXCEPT ![mb] = RemoveKey(keys[mb], key)]
         ELSE UNCHANGED <<Items, keys>>
    /\ Mutated("Delete", mb, key, Exists(mb, key))
    /\ UNCHANGED <<runVars, skVars, roundVars, listVars, storeVars, persistVars, sqlVars, ctorVars, mergeVars, turnVars>>

\* Parse is called: the read lock of the root and the open tag.
ParseCall ==
    /\ pPc = "none"
    /\ pPc' = "keys" /\ pI' = 1
    /\ result' = <<OpenTag(0, "Memory")>>
    /\ instants' = {Parse("root")}
    /\ UNCHANGED <<Items, keys, cameBefore, lastOp>>
    /\ UNCHANGED <<runVars, skVars, roundVars, listVars, storeVars, persistVars, sqlVars, ctorVars, mergeVars, turnVars>>

\* One pass of the loop over the root's keys; a nested block is rendered
\* under its own read lock.
ParseKey ==
    /\ pPc = "keys" /\ pI <= Len(keys["root"])
    /\ result' = result \o ParseItem(Items, keys, "root", 0, keys["root"][pI])
    /\ pI' = pI + 1
    /\ UNCHANGED <<Items, keys, cameBefore, lastOp, pPc, instants>>
    /\ UNCHANGED <<runVars, skVars, roundVars, listVars, storeVars, persistVars, sqlVars, ctorVars, mergeVars, turnVars>>

\* The close tag; the lock is released and Parse returns.
ParseReturn ==
    /\ pPc = "keys" /\ pI > Len(keys["root"])
    /\ result' = Append(result, CloseTag(0, "Memory"))
    /\ pPc' = "returned"
    /\ UNCHANGED <<Items, keys, cameBefore, lastOp, pI, instants>>
    /\ UNCHANGED <<runVars, skVars, roundVars, listVars, storeVars, persistVars, sqlVars, ctorVars, mergeVars, turnVars>>

\* The keys under which a tree's root holds blocks, and the keys and
\* strings of these blocks.
TreeKeys == {"A", "B"}
NestedKeys == {"A"}
NestedVals == {"v1"}

\* One new block: any sequence of adds and deletes on it, the other two
\* blocks being new blocks it is given as values.
MemoryInit ==
    /\ NewSession
    /\ TurnIdle
    /\ MergeIdle
    /\ NewAgentIdle
    /\ SQLiteIdle
    /\ PersistIdle
    /\ StorageIdle
    /\ SkillIdle
    /\ RoundIdle
    /\ ListIdle
    /\ MemoryIdle

MemoryNext ==
    \/ \E key \in Keys, value \in StringVals : AddString("root", key, value)
    \/ \E key \in Keys, value \in Nested : AddBlock("root", key, value)
    \/ \E key \in Keys : Delete("root", key)

MemorySpec == MemoryInit /\ [][MemoryNext]_vars

\* A tree: the root is given the other two blocks as values, goroutines add
\* to and delete from these, and one goroutine calls Parse on the root.
ParseNext ==
    \/ \E key \in TreeKeys, value \in Nested : AddBlock("root", key, value)
    \/ \E mb \in Nested, key \in NestedKeys, value \in NestedVals :
         AddString(mb, key, value)
    \/ \E mb \in Nested, key \in NestedKeys : Delete(mb, key)
    \/ ParseCall
    \/ ParseKey
    \/ ParseReturn

ParseSpec == MemoryInit /\ [][ParseNext]_vars

\* ------------------------------------------------------- InMemoryStorage

\* The sessions that store, and the text of a message: the n-th message
\* created has the text n, the empty string is 0.
SessionIDs == {"s1", "s2"}
EmptyString == 0

\* The messages GetConversations adds for one conversation.
ConversationMessages(conv) ==
    (IF conv.userMessage # EmptyString
       THEN <<[role |-> "user", content |-> conv.userMessage]>> ELSE <<>>)
    \o (IF conv.assistantMessage # EmptyString
          THEN <<[role |-> "assistant", content |-> conv.assistantMessage]>> ELSE <<>>)

\* The arithmetic of int, at the width of the model: a result outside the
\* range wraps around.
MaxInt == 2 ^ (IntBits - 1) - 1
WrapInt(x) == ((x + 2 ^ (IntBits - 1)) % (2 ^ IntBits)) - 2 ^ (IntBits - 1)

\* A start index without `if start < 0 { start = 0 }`.
StartIndexUnclamped(limit, offset) ==
    WrapInt(WrapInt(Len(conversations) - offset) - limit)

\* `start := len(s.conversations) - offset - limit`, at least 0.
StartIndex(limit, offset) ==
    LET start == WrapInt(WrapInt(Len(conversations) - offset) - limit)
    IN  IF start < 0 THEN 0 ELSE start

\* `end := len(s.conversations) - offset`, at least 0.
EndIndex(limit, offset) ==
    LET end == WrapInt(Len(conversations) - offset)
    IN  IF end < 0 THEN 0 ELSE end

\* `for i := end - 1; i >= start; i--`: the indices of Go the loop takes,
\* in its order.
RECURSIVE IndicesDownFrom(_, _)
IndicesDownFrom(i, start) ==
    IF i < start THEN <<>> ELSE <<i>> \o IndicesDownFrom(i - 1, start)

\* The messages the loop adds for the indices it takes.
RECURSIVE ConversationsDownFrom(_, _)
ConversationsDownFrom(i, start) ==
    IF i < start THEN <<>>
    ELSE ConversationMessages(conversations[i + 1]) \o ConversationsDownFrom(i - 1, start)

\* The MessageList GetConversations returns.
GetConversationsList(limit, offset) ==
    ConversationsDownFrom(EndIndex(limit, offset) - 1, StartIndex(limit, offset))

\* GetConversations: `s.conversations[i]` with an index outside the slice
\* panics; else the list is returned.
GetConversations(limit, offset) ==
    /\ LET taken == IndicesDownFrom(EndIndex(limit, offset) - 1, StartIndex(limit, offset))
           inRange == \A k \in 1..Len(taken) :
                          taken[k] >= 0 /\ taken[k] < Len(conversations)
       IN  messageList' = [called |-> TRUE, limit |-> limit, offset |-> offset,
                           Messages |-> IF inRange THEN GetConversationsList(limit, offset)
                                        ELSE <<>>,
                           stored |-> Len(conversations),
                           indices |-> taken,
                           panicked |-> ~inRange]
    /\ UNCHANGED <<conversations, created>>
    /\ UNCHANGED <<runVars, skVars, roundVars, listVars, memVars, persistVars, sqlVars, ctorVars, mergeVars, turnVars>>

\* The index of the conversation of a session, 0 when there is none.
ConversationOf(sessionID) ==
    IF \E i \in 1..Len(conversations) : conversations[i].sessionID = sessionID
      THEN CHOOSE i \in 1..Len(conversations) :
               /\ conversations[i].sessionID = sessionID
               /\ \A j \in 1..(i - 1) : conversations[j].sessionID # sessionID
      ELSE 0

AddUserMessage(sessionID) ==
    /\ created < MaxStored
    /\ created' = created + 1
    /\ conversations' =
         IF ConversationOf(sessionID) # 0
           THEN [conversations EXCEPT ![ConversationOf(sessionID)].userMessage = created + 1]
           ELSE Append(conversations, [sessionID |-> sessionID,
                                       userMessage |-> created + 1,
                                       assistantMessage |-> EmptyString])
    /\ UNCHANGED messageList
    /\ UNCHANGED <<runVars, skVars, roundVars, listVars, memVars, persistVars, sqlVars, ctorVars, mergeVars, turnVars>>

AddAssistantMessage(sessionID) ==
    /\ created < MaxStored
    /\ created' = created + 1
    /\ conversations' =
         IF ConversationOf(sessionID) # 0
           THEN [conversations EXCEPT ![ConversationOf(sessionID)].assistantMessage = created + 1]
           ELSE Append(conversations, [sessionID |-> sessionID,
                                       userMessage |-> EmptyString,
                                       assistantMessage |-> created + 1])
    /\ UNCHANGED messageList
    /\ UNCHANGED <<runVars, skVars, roundVars, listVars, memVars, persistVars, sqlVars, ctorVars, mergeVars, turnVars>>

\* NewInMemoryStorage, then any calls.
StorageInit ==
    /\ NewSession
    /\ TurnIdle
    /\ MergeIdle
    /\ NewAgentIdle
    /\ SQLiteIdle
    /\ PersistIdle
    /\ SkillIdle
    /\ RoundIdle
    /\ ListIdle
    /\ MemoryIdle
    /\ StorageIdle

StorageNext ==
    \/ \E sessionID \in SessionIDs : AddUserMessage(sessionID)
    \/ \E sessionID \in SessionIDs : AddAssistantMessage(sessionID)
    \/ \E limit \in 0..MaxLimit \cup {MaxInt}, offset \in 0..MaxOffset \cup {MaxInt} :
         GetConversations(limit, offset)

StorageSpec == StorageInit /\ [][StorageNext]_vars

\* ------------------------------------------- run with a Storage (persistence)

\* Strings are sequences of characters, so that `+=` is concatenation.
\* The user's message, and the contents the Agent emits.
UserText == <<"h", "i">>
Chunks == {<<>>, <<"a">>, <<"b", "c">>}

\* What the Agent puts on the channel run reads.  For Session.run these are
\* Responses, the last of them the End of Agent.Run's deferred function;
\* for Pod.run they are the chunks of the answer, and the channel is closed
\* after the last.
Emissions(r) ==
    IF r = "Pod.run"
      THEN {[type |-> "partial-text", content |-> c] : c \in Chunks}
      ELSE {[type |-> "partial-text", content |-> c] : c \in Chunks}
             \cup {[type |-> "thinking", content |-> <<"t">>],
                   [type |-> "error", content |-> <<"e">>]}
AgentEnd == [type |-> "end", content |-> <<>>]
AgentScripts(r) ==
    IF r = "Pod.run"
      THEN SeqsUpTo(Emissions(r), MaxEmit)
      ELSE {Append(sc, AgentEnd) : sc \in SeqsUpTo(Emissions(r), MaxEmit)}

\* An aggregation that takes the content of every Response.
AggregateAny(agg, resp) == agg \o resp.content

\* `if response.Type == ResponseTypePartialText { aggregatedResponse += response.Content }`
Aggregate(agg, resp) ==
    IF resp.type = "partial-text" THEN agg \o resp.content ELSE agg

\* A run as it starts: Session.run of src/session.go or Pod.run, with the
\* script the Agent will follow once it is invoked.
PersistInit ==
    /\ NewSession
    /\ TurnIdle
    /\ MergeIdle
    /\ NewAgentIdle
    /\ SQLiteIdle
    /\ SkillIdle
    /\ RoundIdle
    /\ ListIdle
    /\ MemoryIdle
    /\ StorageIdle
    /\ SQLiteIdle
    /\ runner \in {"Session.run", "Pod.run"}
    /\ runPc = "select"
    /\ agentScript \in AgentScripts(runner)
    /\ held = <<>>
    /\ aggregatedResponse = <<>>
    /\ stored = [user |-> NotStored, assistant |-> NotStored]
    /\ failed = {}
    /\ agentInvoked = FALSE
    /\ outUser = <<>>

\* The select: the context is done or the input channel is closed (End is
\* sent and run returns), or the user's message arrives.
RunSelect ==
    /\ runPc = "select"
    /\ \/ /\ outUser' = Append(outUser, AgentEnd)
          /\ runPc' = "returned"
       \/ /\ runPc' = "storeUser"
          /\ UNCHANGED outUser
    /\ UNCHANGED <<runner, agentScript, held, aggregatedResponse, stored, failed, agentInvoked>>
    /\ UNCHANGED <<runVars, skVars, roundVars, listVars, memVars, storeVars, sqlVars, ctorVars, mergeVars, turnVars>>

\* AddUserMessage / CreateConversation: an error is logged.
RunAddUserMessage ==
    /\ runPc = "storeUser"
    /\ \E ok \in BOOLEAN :
         IF ok THEN /\ stored' = [stored EXCEPT !.user = UserText]
                    /\ UNCHANGED failed
         ELSE /\ failed' = failed \cup {"user"}
              /\ UNCHANGED stored
    /\ runPc' = IF runner = "Pod.run" THEN "agentRun" ELSE "compile"
    /\ UNCHANGED <<runner, agentScript, held, aggregatedResponse, agentInvoked, outUser>>
    /\ UNCHANGED <<runVars, skVars, roundVars, listVars, memVars, storeVars, sqlVars, ctorVars, mergeVars, turnVars>>

\* Session.run: CompileConversationHistory, then memory.Retrieve; run
\* returns on an error of either.
RunCompileHistory ==
    /\ runPc = "compile"
    /\ \E ok \in BOOLEAN :
         IF ok THEN runPc' = "retrieve" /\ UNCHANGED failed
         ELSE runPc' = "returned" /\ failed' = failed \cup {"compile"}
    /\ UNCHANGED <<runner, agentScript, held, aggregatedResponse, stored, agentInvoked, outUser>>
    /\ UNCHANGED <<runVars, skVars, roundVars, listVars, memVars, storeVars, sqlVars, ctorVars, mergeVars, turnVars>>

RunRetrieve ==
    /\ runPc = "retrieve"
    /\ \E ok \in BOOLEAN :
         IF ok THEN /\ runPc' = "recv" /\ agentInvoked' = TRUE
                    /\ UNCHANGED failed
         ELSE /\ runPc' = "returned" /\ failed' = failed \cup {"retrieve"}
              /\ UNCHANGED agentInvoked
    /\ UNCHANGED <<runner, agentScript, held, aggregatedResponse, stored, outUser>>
    /\ UNCHANGED <<runVars, skVars, roundVars, listVars, memVars, storeVars, sqlVars, ctorVars, mergeVars, turnVars>>

\* Pod.run: Agent.Run returns the channel, or nil and an error; the error
\* goes out as an Error Response and run then ranges over the nil channel.
RunAgent ==
    /\ runPc = "agentRun"
    /\ agentInvoked' = TRUE
    /\ \E ok \in BOOLEAN :
         IF ok THEN /\ runPc' = "recv"
                    /\ UNCHANGED <<outUser, failed>>
         ELSE /\ runPc' = "rangeNil"
              /\ outUser' = Append(outUser, [type |-> "error", content |-> <<"e">>])
              /\ failed' = failed \cup {"agent"}
    /\ UNCHANGED <<runner, agentScript, held, aggregatedResponse, stored>>
    /\ UNCHANGED <<runVars, skVars, roundVars, listVars, memVars, storeVars, sqlVars, ctorVars, mergeVars, turnVars>>

\* The Agent sends and the loop of run receives.  Pod.run aggregates a chunk
\* that is not empty and goes on to send it; it skips an empty one.
AgentEmit ==
    /\ runPc = "recv" /\ agentScript # <<>>
    /\ agentScript' = Tail(agentScript)
    /\ IF runner = "Pod.run"
         THEN IF Len(Head(agentScript).content) > 0
                THEN /\ aggregatedResponse' = aggregatedResponse \o Head(agentScript).content
                     /\ held' = <<Head(agentScript)>>
                     /\ runPc' = "forward"
                ELSE UNCHANGED <<aggregatedResponse, held, runPc>>
         ELSE /\ held' = <<Head(agentScript)>>
              /\ runPc' = "forward"
              /\ UNCHANGED aggregatedResponse
    /\ UNCHANGED <<runner, stored, failed, agentInvoked, outUser>>
    /\ UNCHANGED <<runVars, skVars, roundVars, listVars, memVars, storeVars, sqlVars, ctorVars, mergeVars, turnVars>>

\* The send on the output channel, received by the caller's Out().
\* Session.run then aggregates a PartialText and leaves the loop on End.
RunForward ==
    /\ runPc = "forward"
    /\ outUser' = Append(outUser, held[1])
    /\ held' = <<>>
    /\ IF runner = "Pod.run"
         THEN /\ runPc' = "recv"
              /\ UNCHANGED aggregatedResponse
         ELSE /\ aggregatedResponse' = Aggregate(aggregatedResponse, held[1])
              /\ runPc' = IF held[1].type = "end" THEN "storeAssistant" ELSE "recv"
    /\ UNCHANGED <<runner, agentScript, stored, failed, agentInvoked>>
    /\ UNCHANGED <<runVars, skVars, roundVars, listVars, memVars, storeVars, sqlVars, ctorVars, mergeVars, turnVars>>

\* Pod.run: the Agent closes its channel and the range loop ends.
AgentClose ==
    /\ runner = "Pod.run" /\ runPc = "recv" /\ agentScript = <<>>
    /\ runPc' = "storeAssistant"
    /\ UNCHANGED <<runner, agentScript, held, aggregatedResponse, stored, failed,
                   agentInvoked, outUser>>
    /\ UNCHANGED <<runVars, skVars, roundVars, listVars, memVars, storeVars, sqlVars, ctorVars, mergeVars, turnVars>>

\* AddAssistantMessage / FinishConversation: an error is logged.
RunAddAssistantMessage ==
    /\ runPc = "storeAssistant"
    /\ \E ok \in BOOLEAN :
         IF ok THEN /\ stored' = [stored EXCEPT !.assistant = aggregatedResponse]
                    /\ UNCHANGED failed
         ELSE /\ failed' = failed \cup {"assistant"}
              /\ UNCHANGED stored
    /\ runPc' = "sendEnd"
    /\ UNCHANGED <<runner, agentScript, held, aggregatedResponse, agentInvoked, outUser>>
    /\ UNCHANGED <<runVars, skVars, roundVars, listVars, memVars, storeVars, sqlVars, ctorVars, mergeVars, turnVars>>

\* The final End, and run returns.
RunSendEnd ==
    /\ runPc = "sendEnd"
    /\ outUser' = Append(outUser, AgentEnd)
    /\ runPc' = "returned"
    /\ UNCHANGED <<runner, agentScript, held, aggregatedResponse, stored, failed, agentInvoked>>
    /\ UNCHANGED <<runVars, skVars, roundVars, listVars, memVars, storeVars, sqlVars, ctorVars, mergeVars, turnVars>>

PersistNext ==
    \/ RunSelect
    \/ RunAddUserMessage
    \/ RunCompileHistory
    \/ RunRetrieve
    \/ RunAgent
    \/ AgentEmit
    \/ RunForward
    \/ AgentClose
    \/ RunAddAssistantMessage
    \/ RunSendEnd

PersistSpec == PersistInit /\ [][PersistNext]_vars

\* The same run with a scheduler that lets a goroutine that can take a step
\* take it, and a caller that keeps receiving from Out().
PersistFairSpec == PersistInit /\ [][PersistNext]_vars /\ WF_vars(PersistNext)

\* ---------------------------------------------------------- SQLiteStorage

\* The table conversations: `UNIQUE(session_id)` makes it a function from a
\* session id to its row, if any.  assistant_message is NULL until the
\* conversation is finished.
NULL == "<NULL>"
UserMessages == {"u1", "u2"}
AssistantMessages == {"a1", "a2"}

\* An INSERT that replaces the row of the session id.
InsertOrReplace(t, sid, userMessage) ==
    [err |-> "none",
     table |-> [t EXCEPT ![sid] = [user_message |-> userMessage,
                                   assistant_message |-> NULL]]]

\* `INSERT INTO conversations (session_id, ..., user_message, ...)`: the
\* statement fails on the UNIQUE constraint when the session id has a row.
Insert(t, sid, userMessage) ==
    IF t[sid] # NoRow
      THEN [err |-> "failed to create conversation", table |-> t]
      ELSE [err |-> "none",
            table |-> [t EXCEPT ![sid] = [user_message |-> userMessage,
                                          assistant_message |-> NULL]]]

\* `SELECT EXISTS(SELECT 1 FROM conversations WHERE session_id = ?)`
RowExists(t, sid) == t[sid] # NoRow

\* `UPDATE conversations SET assistant_message = ? WHERE session_id = ?`
Update(t, sid, assistantMessage) ==
    [s \in DOMAIN t |->
        IF s = sid /\ t[s] # NoRow
          THEN [t[s] EXCEPT !.assistant_message = assistantMessage]
          ELSE t[s]]

\* CreateConversation: the INSERT, or an error of the database itself.
CreateConversation(sid, userMessage) ==
    /\ \E dbOk \in BOOLEAN :
         LET r == Insert(table, sid, userMessage)
         IN  IF dbOk
               THEN /\ table' = r.table
                    /\ lastCall' = [op |-> "CreateConversation", session_id |-> sid,
                                    err |-> r.err]
               ELSE /\ UNCHANGED table
                    /\ lastCall' = [op |-> "CreateConversation", session_id |-> sid,
                                    err |-> "failed to create conversation"]
    /\ UNCHANGED <<runVars, skVars, roundVars, listVars, memVars, storeVars, persistVars, ctorVars, mergeVars, turnVars>>

\* FinishConversation: the existence check, then the UPDATE; either
\* statement may fail in the database.
FinishConversation(sid, assistantMessage) ==
    /\ \E checkOk, updateOk \in BOOLEAN :
         IF ~checkOk
           THEN /\ UNCHANGED table
                /\ lastCall' = [op |-> "FinishConversation", session_id |-> sid,
                                err |-> "failed to check conversation existence"]
         ELSE IF ~RowExists(table, sid)
           THEN /\ UNCHANGED table
                /\ lastCall' = [op |-> "FinishConversation", session_id |-> sid,
                                err |-> "no conversation found"]
         ELSE IF ~updateOk
           THEN /\ UNCHANGED table
                /\ lastCall' = [op |-> "FinishConversation", session_id |-> sid,
                                err |-> "failed to update conversation"]
         ELSE /\ table' = Update(table, sid, assistantMessage)
              /\ lastCall' = [op |-> "FinishConversation", session_id |-> sid,
                              err |-> "none"]
    /\ UNCHANGED <<runVars, skVars, roundVars, listVars, memVars, storeVars, persistVars, ctorVars, mergeVars, turnVars>>

SQLiteInit ==
    /\ NewSession
    /\ TurnIdle
    /\ MergeIdle
    /\ NewAgentIdle
    /\ SkillIdle
    /\ RoundIdle
    /\ ListIdle
    /\ MemoryIdle
    /\ StorageIdle
    /\ PersistIdle
    /\ table = [sid \in SessionIDs |-> NoRow]
    /\ lastCall = NoCall

SQLiteNext ==
    \/ \E sid \in SessionIDs, m \in UserMessages : CreateConversation(sid, m)
    \/ \E sid \in SessionIDs, m \in AssistantMessages : FinishConversation(sid, m)

SQLiteSpec == SQLiteInit /\ [][SQLiteNext]_vars

\* ------------------------------------------------------------------ NewAgent

\* The Skills a caller may pass: Name, Description and SystemPrompt, the
\* last two possibly empty.
SkillValues ==
    [Name : {"s", "t"}, Description : {"", "d"}, SystemPrompt : {"", "p"}]

\* A validation that looks at the Description only.
ValidateDescriptionOnly(skills, i) ==
    IF \E k \in i..Len(skills) : skills[k].Description = ""
      THEN <<"skill", skills[CHOOSE k \in i..Len(skills) :
                               /\ skills[k].Description = ""
                               /\ \A h \in i..(k - 1) : skills[h].Description # ""].Name,
             "is missing a Description">>
      ELSE <<>>

\* `for _, skill := range skills`: the panic of the first skill, from the
\* i-th on, that lacks a Description or a SystemPrompt; <<>> if none does.
RECURSIVE Validate(_, _)
Validate(skills, i) ==
    IF i > Len(skills) THEN <<>>
    ELSE IF skills[i].Description = ""
      THEN <<"skill", skills[i].Name, "is missing a Description">>
    ELSE IF skills[i].SystemPrompt = ""
      THEN <<"skill", skills[i].Name, "is missing a SystemPrompt">>
    ELSE Validate(skills, i + 1)

\* NewAgent(prompt, skills)
NewAgent(prompt, skills) ==
    /\ ctorPc = "call"
    /\ skills = givenSkills
    /\ panicMsg' = Validate(skills, 1)
    /\ agent' = IF Validate(skills, 1) = <<>>
                  THEN [prompt |-> prompt, skills |-> skills]
                  ELSE NoAgent
    /\ ctorPc' = IF Validate(skills, 1) = <<>> THEN "returned" ELSE "panicked"
    /\ UNCHANGED givenSkills
    /\ UNCHANGED <<runVars, skVars, roundVars, listVars, memVars, storeVars, persistVars, sqlVars, mergeVars, turnVars>>

NewAgentInit ==
    /\ NewSession
    /\ TurnIdle
    /\ MergeIdle
    /\ SkillIdle
    /\ RoundIdle
    /\ ListIdle
    /\ MemoryIdle
    /\ StorageIdle
    /\ PersistIdle
    /\ SQLiteIdle
    /\ givenSkills \in SeqsUpTo(SkillValues, MaxSkills)
    /\ agent = NoAgent
    /\ panicMsg = <<>>
    /\ ctorPc = "call"

NewAgentNext == \E prompt \in {"", "main prompt"} : NewAgent(prompt, givenSkills)

NewAgentSpec == NewAgentInit /\ [][NewAgentNext]_vars

\* ------------------------------------------- the skill round of Agent.Run

\* The lists of a round: the canonical history, the clone of each skill
\* goroutine (numbered as the tool calls are), and the clone of the thought
\* streamer.
SkillCalls == 1..MaxCalls
Thoughts == MaxCalls + 1
RoundLists == {Canonical} \cup SkillCalls \cup {Thoughts}
NoList == [array |-> <<Canonical, 0>>, len |-> 0]

\* A message: its kind and the goroutine whose code built it (Canonical for
\* the messages of Run itself).
Msg(kind, g) == [kind |-> kind, of |-> g]
ZeroCell == Msg("nil", Canonical)
NoSkillResult == Msg("no result", Canonical)

\* The lists and the arrays behind them, as one value the methods transform.
Cur == [lists |-> lists, heap |-> heap]
EntriesIn(st, o) == SubSeq(st.heap[st.lists[o].array], 1, st.lists[o].len)

\* A slice in a newly allocated array becomes the Messages of list o.  An
\* array is named after the list it was allocated for and numbered among
\* the arrays of that list.
Alloc(st, o, n, cells) ==
    LET a == <<o, 1 + Cardinality({x \in DOMAIN st.heap : x[1] = o})>>
    IN  [lists |-> [st.lists EXCEPT ![o] = [array |-> a, len |-> n]],
         heap |-> [x \in DOMAIN st.heap \cup {a} |->
                     IF x = a THEN cells ELSE st.heap[x]]]

\* MessageList.Add: `ml.Messages = append(ml.Messages, msgs...)`
HistoryAdd(st, o, msgs) ==
    LET sl == st.lists[o]
        old == st.heap[sl.array]
        n == sl.len + Len(msgs)
    IN  IF n <= Len(old)
          THEN [lists |-> [st.lists EXCEPT ![o] = [array |-> sl.array, len |-> n]],
                heap |-> [st.heap EXCEPT ![sl.array] =
                            [k \in 1..Len(old) |->
                               IF k > sl.len /\ k <= n THEN msgs[k - sl.len]
                               ELSE old[k]]]]
          ELSE Alloc(st, o, n,
                     [k \in 1..GrowCap(Len(old), n) |->
                        IF k <= sl.len THEN old[k]
                        ELSE IF k <= n THEN msgs[k - sl.len]
                        ELSE ZeroCell])

\* MessageList.AddFirst: `append([]...{DeveloperMessage(prompt)}, ml.Messages...)`
HistoryAddFirst(st, o, prompt) ==
    LET all == EntriesIn(st, o)
        n == 1 + Len(all)
        c == IF Len(all) = 0 THEN 1 ELSE GrowCap(1, n)
    IN  Alloc(st, o, n,
              [k \in 1..c |-> IF k = 1 THEN prompt
                              ELSE IF k <= n THEN all[k - 1]
                              ELSE ZeroCell])

\* A Clone whose list takes the slice of the original.
HistoryCloneShared(st, src, dst) ==
    [lists |-> [st.lists EXCEPT ![dst] = st.lists[src]], heap |-> st.heap]

\* MessageList.Clone: `append([]...{}, ml.Messages...)` in a new list.
HistoryClone(st, src, dst) ==
    Alloc(st, dst, Len(EntriesIn(st, src)), EntriesIn(st, src))

\* The tool calls of the selection message; a call names a skill the Agent
\* has, or one it has not.
Selections == UNION {[1..n -> [known : BOOLEAN]] : n \in 1..MaxCalls}
SelectionMessage == Msg("selection", Canonical)

\* Run after chooseSkills has returned a completion with tool calls: the
\* canonical history holds the user's message, in an array with or without
\* spare capacity.
MergeInit ==
    /\ NewSession
    /\ TurnIdle
    /\ SkillIdle
    /\ RoundIdle
    /\ ListIdle
    /\ MemoryIdle
    /\ StorageIdle
    /\ PersistIdle
    /\ SQLiteIdle
    /\ NewAgentIdle
    /\ \E spare \in {<<>>, <<ZeroCell>>} :
         heap = [x \in {<<Canonical, 1>>} |-> <<Msg("user", Canonical)>> \o spare]
    /\ lists = [o \in RoundLists |-> IF o = Canonical
                                       THEN [array |-> <<Canonical, 1>>, len |-> 1]
                                     ELSE NoList]
    /\ toolsToCall \in Selections
    /\ mPc = "spawnThoughts" /\ mI = 1
    /\ sgPc = [g \in SkillCalls |-> "none"]
    /\ skillResults = [g \in SkillCalls |-> NoSkillResult]
    /\ thPc = "none"
    /\ collateErr = "none"

\* `go a.sendThoughtsAboutSkills(ctx, llm, messageHistory.Clone(), ...)`
RunSpawnThoughts ==
    /\ mPc = "spawnThoughts"
    /\ lists' = HistoryClone(Cur, Canonical, Thoughts).lists
    /\ heap' = HistoryClone(Cur, Canonical, Thoughts).heap
    /\ thPc' = "start"
    /\ mPc' = "loop"
    /\ UNCHANGED <<toolsToCall, mI, sgPc, skillResults, collateErr>>
    /\ UNCHANGED <<runVars, skVars, roundVars, listVars, memVars, storeVars, persistVars, sqlVars, ctorVars, turnVars>>

\* sendThoughtsAboutSkills: `messageHistory.AddFirst(allSpecSystemPrompt)`
ThoughtsAddFirst ==
    /\ thPc = "start"
    /\ lists' = HistoryAddFirst(Cur, Thoughts, Msg("developer", Thoughts)).lists
    /\ heap' = HistoryAddFirst(Cur, Thoughts, Msg("developer", Thoughts)).heap
    /\ thPc' = "done"
    /\ UNCHANGED <<toolsToCall, mPc, mI, sgPc, skillResults, collateErr>>
    /\ UNCHANGED <<runVars, skVars, roundVars, listVars, memVars, storeVars, persistVars, sqlVars, ctorVars, turnVars>>

\* One iteration of `for _, tool := range toolsToCall`: GetSkill fails and
\* the call is skipped, or wg.Add(1) and the goroutine is started.
RunSpawnSkill ==
    /\ mPc = "loop"
    /\ sgPc' = IF toolsToCall[mI].known THEN [sgPc EXCEPT ![mI] = "clone"] ELSE sgPc
    /\ mI' = mI + 1
    /\ mPc' = IF mI = Len(toolsToCall) THEN "wait" ELSE "loop"
    /\ UNCHANGED <<heap, lists, toolsToCall, skillResults, thPc, collateErr>>
    /\ UNCHANGED <<runVars, skVars, roundVars, listVars, memVars, storeVars, persistVars, sqlVars, ctorVars, turnVars>>

\* The goroutine evaluates `messageHistory.Clone()` for its SkillContextRunner.
SkillClone(g) ==
    /\ sgPc[g] = "clone"
    /\ lists' = HistoryClone(Cur, Canonical, g).lists
    /\ heap' = HistoryClone(Cur, Canonical, g).heap
    /\ sgPc' = [sgPc EXCEPT ![g] = "prompt"]
    /\ UNCHANGED <<toolsToCall, mPc, mI, skillResults, thPc, collateErr>>
    /\ UNCHANGED <<runVars, skVars, roundVars, listVars, memVars, storeVars, persistVars, sqlVars, ctorVars, turnVars>>

\* SkillContextRunner: the prompt fails to render (nil, err), or AddFirst
\* and, if the call has an instruction, Add of the user message.
SkillPrompt(g) ==
    /\ sgPc[g] = "prompt"
    /\ \/ /\ sgPc' = [sgPc EXCEPT ![g] = "done"]
          /\ UNCHANGED <<heap, lists>>
       \/ \E instruction \in BOOLEAN :
            LET first == HistoryAddFirst(Cur, g, Msg("developer", g))
                st == IF instruction THEN HistoryAdd(first, g, <<Msg("user", g)>>)
                      ELSE first
            IN  /\ lists' = st.lists
                /\ heap' = st.heap
                /\ sgPc' = [sgPc EXCEPT ![g] = "turn"]
    /\ UNCHANGED <<toolsToCall, mPc, mI, skillResults, thPc, collateErr>>
    /\ UNCHANGED <<runVars, skVars, roundVars, listVars, memVars, storeVars, persistVars, sqlVars, ctorVars, turnVars>>

\* The model call of the loop: it fails (nil, err), or its message is added.
SkillTurn(g) ==
    /\ sgPc[g] = "turn"
    /\ \/ /\ sgPc' = [sgPc EXCEPT ![g] = "done"]
          /\ UNCHANGED <<heap, lists>>
       \/ /\ lists' = HistoryAdd(Cur, g, <<Msg("assistant", g)>>).lists
          /\ heap' = HistoryAdd(Cur, g, <<Msg("assistant", g)>>).heap
          /\ sgPc' = [sgPc EXCEPT ![g] = "toolResult"]
    /\ UNCHANGED <<toolsToCall, mPc, mI, skillResults, thPc, collateErr>>
    /\ UNCHANGED <<runVars, skVars, roundVars, listVars, memVars, storeVars, persistVars, sqlVars, ctorVars, turnVars>>

\* The result of a tool of the skill is added.
SkillToolResult(g) ==
    /\ sgPc[g] = "toolResult"
    /\ lists' = HistoryAdd(Cur, g, <<Msg("tool", g)>>).lists
    /\ heap' = HistoryAdd(Cur, g, <<Msg("tool", g)>>).heap
    /\ sgPc' = [sgPc EXCEPT ![g] = "return"]
    /\ UNCHANGED <<toolsToCall, mPc, mI, skillResults, thPc, collateErr>>
    /\ UNCHANGED <<runVars, skVars, roundVars, listVars, memVars, storeVars, persistVars, sqlVars, ctorVars, turnVars>>

\* SkillContextRunner returns: an error is logged and nothing is stored,
\* else `results[toolID] = result`; wg.Done either way.
SkillDone(g) ==
    /\ sgPc[g] = "return"
    /\ \E ok \in BOOLEAN :
         skillResults' = IF ok THEN [skillResults EXCEPT ![g] = Msg("skill result", g)]
                         ELSE skillResults
    /\ sgPc' = [sgPc EXCEPT ![g] = "done"]
    /\ UNCHANGED <<heap, lists, toolsToCall, mPc, mI, thPc, collateErr>>
    /\ UNCHANGED <<runVars, skVars, roundVars, listVars, memVars, storeVars, persistVars, sqlVars, ctorVars, turnVars>>

\* wg.Wait() returns, and `messageHistory.Add(completion.Choices[0].Message)`.
RunAddSelection ==
    /\ mPc = "wait"
    /\ \A g \in SkillCalls : sgPc[g] \in {"none", "done"}
    /\ lists' = HistoryAdd(Cur, Canonical, <<SelectionMessage>>).lists
    /\ heap' = HistoryAdd(Cur, Canonical, <<SelectionMessage>>).heap
    /\ mPc' = "collate"
    /\ UNCHANGED <<toolsToCall, mI, sgPc, skillResults, thPc, collateErr>>
    /\ UNCHANGED <<runVars, skVars, roundVars, listVars, memVars, storeVars, persistVars, sqlVars, ctorVars, turnVars>>

\* `for _, result := range results { clonedMessages.Add(result) }`, the
\* results given in the order the map yields them.
RECURSIVE AddEach(_, _, _)
AddEach(st, o, msgs) ==
    IF msgs = <<>> THEN st
    ELSE AddEach(HistoryAdd(st, o, <<Head(msgs)>>), o, Tail(msgs))

Stored == {g \in SkillCalls : skillResults[g] # NoSkillResult}
MapOrders == {f \in [1..Cardinality(Stored) -> Stored] :
                 \A i, j \in 1..Cardinality(Stored) : f[i] = f[j] => i = j}

\* collateSkillCallResults: with more than one tool call
\* summarizeMultipleToolResults adds the stored results to the history it
\* is given, which is the canonical one, and calls the model; with one
\* call returnSingleToolResult reads the result off the map.
RunCollate ==
    /\ mPc = "collate"
    /\ IF Len(toolsToCall) > 1
         THEN \E order \in MapOrders, summaryOk \in BOOLEAN :
                LET st == AddEach(Cur, Canonical,
                                  [i \in 1..Len(order) |-> skillResults[order[i]]])
                IN  /\ lists' = st.lists
                    /\ heap' = st.heap
                    /\ collateErr' = IF summaryOk THEN "none" ELSE "stream error"
         ELSE /\ UNCHANGED <<heap, lists>>
              /\ collateErr' = IF skillResults[1] # NoSkillResult THEN "none"
                               ELSE "unexpected message type"
    /\ mPc' = "done"
    /\ UNCHANGED <<toolsToCall, mI, sgPc, skillResults, thPc>>
    /\ UNCHANGED <<runVars, skVars, roundVars, listVars, memVars, storeVars, persistVars, sqlVars, ctorVars, turnVars>>

MergeNext ==
    \/ RunSpawnThoughts
    \/ ThoughtsAddFirst
    \/ RunSpawnSkill
    \/ \E g \in SkillCalls : SkillClone(g)
    \/ \E g \in SkillCalls : SkillPrompt(g)
    \/ \E g \in SkillCalls : SkillTurn(g)
    \/ \E g \in SkillCalls : SkillToolResult(g)
    \/ \E g \in SkillCalls : SkillDone(g)
    \/ RunAddSelection
    \/ RunCollate

MergeSpec == MergeInit /\ [][MergeNext]_vars

\* ----------------- SkillContextRunner, a model turn with its round and exit

\* The stop call a completion may carry, with or without a response.
StopResponses == {"", "final answer"}
StopCall(resp) == [id |-> 0, kind |-> "stop", text |-> resp]

\* The ToolCalls of a completion: the calls of a round, and possibly a stop
\* call before, between or after them.  <<>> stands for nil.
WithStopAt(calls, k, r) ==
    SubSeq(calls, 1, k) \o <<StopCall(r)>> \o SubSeq(calls, k + 1, Len(calls))
TurnsOfCalls ==
    {RoundCalls(round) : round \in RoundsOfCalls}
      \cup UNION {{WithStopAt(RoundCalls(round), k, r) : k \in 0..Len(round)} :
                     r \in StopResponses, round \in RoundsOfCalls}

\* skillToolCalls: the calls of the turn other than stop, in their order.
SkillToolCalls(calls) ==
    LET IsOther(tc) == tc.kind # "stop" IN SelectSeq(calls, IsOther)

\* A filter that lets the stop call through.
FilteredWithStop(calls) == calls

\* filtered: `if tc.Function.Name != "stop" { filtered = append(filtered, tc) }`
Filtered(calls) ==
    LET NotStop(tc) == tc.kind # "stop" IN SelectSeq(calls, NotStop)

\* The assistant message as the history holds it, with its tool calls.
AssistantMessage(calls) ==
    [id |-> 0, content |-> <<"assistant message">>, calls |-> calls]

\* The loop has a completion from the model.
TurnInit ==
    /\ NewSession
    /\ SkillIdle
    /\ RoundIdle
    /\ ListIdle
    /\ MemoryIdle
    /\ StorageIdle
    /\ PersistIdle
    /\ SQLiteIdle
    /\ NewAgentIdle
    /\ MergeIdle
    /\ turnCalls \in TurnsOfCalls
    /\ hasStopToolCall = FALSE
    /\ turnStopResponse = ""
    /\ stPc = "separate"

\* The loop over the ToolCalls that sets hasStopToolCall and
\* stopToolResponse and collects skillToolCalls; the assistant message is
\* added unless it had tool calls and all of them were stop; the round of
\* the other calls begins.
TurnSeparate ==
    /\ stPc = "separate"
    /\ hasStopToolCall' = \E k \in 1..Len(turnCalls) : turnCalls[k].kind = "stop"
    /\ turnStopResponse' =
         IF \E k \in 1..Len(turnCalls) : turnCalls[k].kind = "stop"
           THEN turnCalls[CHOOSE k \in 1..Len(turnCalls) : turnCalls[k].kind = "stop"].text
           ELSE ""
    /\ rCalls' = SkillToolCalls(turnCalls)
    /\ history' = IF turnCalls = <<>>
                    THEN Append(history, AssistantMessage(<<>>))
                  ELSE IF Len(Filtered(turnCalls)) > 0
                    THEN Append(history, AssistantMessage(Filtered(turnCalls)))
                  ELSE history
    /\ rPc' = "spawn" /\ rI' = 1
    /\ stPc' = "round"
    /\ UNCHANGED <<gPc, gResult, resultsChan, chanClosed, cPc, executed>>
    /\ UNCHANGED turnCalls
    /\ UNCHANGED <<runVars, skVars, listVars, memVars, storeVars, persistVars, sqlVars, ctorVars, mergeVars>>

\* After the range loop: `if hasStopToolCall { break }`, then the break on
\* nil ToolCalls, else the next iteration with its model call; after a
\* break the runner returns its tool message.
TurnExit ==
    /\ stPc = "round" /\ rPc = "done"
    /\ stPc' = IF hasStopToolCall \/ turnCalls = <<>> THEN "returned"
               ELSE "nextModelCall"
    /\ UNCHANGED <<turnCalls, hasStopToolCall, turnStopResponse>>
    /\ UNCHANGED <<runVars, skVars, roundVars, listVars, memVars, storeVars, persistVars, sqlVars, ctorVars, mergeVars>>

TurnNext ==
    \/ TurnSeparate
    \/ RoundSpawn
    \/ RoundStartCollect
    \/ \E g \in ToolIds : ToolRun(g)
    \/ \E g \in ToolIds : ToolSend(g)
    \/ CloseResults
    \/ RoundReceive
    \/ RoundEnd
    \/ TurnExit

TurnSpec == TurnInit /\ [][TurnNext]_vars

\* ------------------------------------------------------------------ Next

Next ==
    \/ In
    \/ ParentCancel
    \/ \E p \in Closers : Close(p)
    \/ \E p \in Closers : CloseInChannel(p)
    \/ \E p \in Closers : CloseOutChannel(p)
    \/ SessionSelect
    \/ SessionRetrieve
    \/ Out
    \/ SessionSendOnClosed
    \/ ChooseSkills
    \/ ChooseSkillsDedup
    \/ HandleLLMError
    \/ AgentSendContent
    \/ AgentStartSkills
    \/ AgentCollate
    \/ AgentSendResult
    \/ AgentDeferEnd
    \/ ThoughtStart
    \/ ThoughtChunk
    \/ ThoughtEnd
    \/ \E id \in CallIds : SkillContextRunner(id)

Spec == Init /\ [][Next]_vars

\* The Session with the SkillContextRunner of src/skill_context_runner.go,
\* whose tool goroutines send a Status before they run their tool.
StatusNext ==
    \/ Next
    \/ \E id \in CallIds : ToolStatus(id)

StatusSpec == Init /\ [][StatusNext]_vars

\* The Session with a caller that calls In() once, calls Out() until it has
\* received an End, and never calls Close(); the parent context stays live.
InOnce == inIssued = 0 /\ In

OutUntilEnd ==
    /\ \A i \in 1..Len(outLog) : outLog[i].type # "end"
    /\ Out

DrainNext ==
    \/ InOnce
    \/ OutUntilEnd
    \/ Close(RunCloser)
    \/ CloseInChannel(RunCloser)
    \/ CloseOutChannel(RunCloser)
    \/ SessionSelect
    \/ SessionRetrieve
    \/ ChooseSkills
    \/ ChooseSkillsDedup
    \/ HandleLLMError
    \/ AgentSendContent
    \/ AgentStartSkills
    \/ AgentCollate
    \/ AgentSendResult
    \/ AgentDeferEnd
    \/ ThoughtStart
    \/ ThoughtChunk
    \/ ThoughtEnd
    \/ \E id \in CallIds : SkillContextRunner(id)

\* Every goroutine that can take a step takes one in the end, and so does
\* the caller while it follows its protocol.
DrainSpec == Init /\ [][DrainNext]_vars /\ WF_vars(DrainNext)

\* ---------------------------------------------------------------- claims

\* The number of Responses of a type in a log.
Count(log, type) == Cardinality({i \in 1..Len(log) : log[i].type = type})

\* C1: a Session that accepted a message and ran Agent.Run has sent exactly
\* one End on its output channel by the time Session.run has returned.
\* The code sends two when Run returns normally: Run's deferred End is
\* forwarded, and Session.run appends its own.
C1_ExactlyOneEnd ==
    (sPc = "done" /\ agentRuns = 1) => Count(outLog, "end") = 1

\* C2: on every path through Session.run the last Response delivered by
\* Out() is End.  On the Memory.Retrieve error path the code returns
\* without sending anything.
C2_EndIsLast ==
    (sPc = "done" /\ Alive) =>
        /\ outLog # <<>>
        /\ outLog[Len(outLog)] = EndResponse

\* C3: a Run emits at most one Error, a failed Run exactly one once the
\* Session has returned, and on the internal channel as on the output
\* channel only End follows an Error.
OneErrorThenEnd(log) ==
    /\ Count(log, "error") <= 1
    /\ \A i, j \in 1..Len(log) :
         (i < j /\ log[i].type = "error") => log[j].type = "end"

C4_CancelledBeforeInputEmitsEnd ==
    (inIssued = 0 /\ ctxDone) => panicked # "Session.run: send on closed channel"

\* C5: the Responses returned by Out() are the Responses received on the
\* internal channel, in order and unaltered, the one being forwarded
\* excepted, followed by the Session's End once the loop is over.
C5_ForwardsExactly ==
    LET n == Len(agentSent)
        m == Len(outLog)
    IN  /\ m \in {n - 1, n, n + 1}
        /\ \A i \in 1..(IF m < n THEN m ELSE n) : outLog[i] = agentSent[i]
        /\ m = n - 1 <=> sPc = "forward"
        /\ m = n + 1 => outLog[m] = EndResponse /\ sPc \in {"deferClose", "done"}
        /\ (sPc = "done" /\ agentRuns = 1) => outLog = Append(agentSent, EndResponse)

\* C5 witness: a Run with thoughts and a result has been forwarded whole.
C5_Witness ==
    /\ sPc = "done" /\ Alive
    /\ Len(agentSent) >= 4
    /\ Count(outLog, "partial-text") >= 1
    /\ Count(outLog, "thinking") >= 1

\* C6: for any Close() calls interleaved with the deferred Close of
\* Session.run the context is cancelled once and each channel is closed
\* once, no Close() panics closing a closed channel, and a Close() that
\* has returned leaves the Session cancelled and both channels closed.
C6_CloseOnce ==
    /\ closeCount.cancel <= 1 /\ closeCount.inCh <= 1 /\ closeCount.outCh <= 1
    /\ panicked # "Close: close of closed channel"
    /\ \A p \in Closers : closePc[p] = "returned" =>
         /\ once = "done"
         /\ closeCount = [cancel |-> 1, inCh |-> 1, outCh |-> 1]
         /\ ctxDone /\ inClosed /\ outClosed

\* C6 witness: every caller's Close() and the deferred Close have returned.
C6_Witness ==
    /\ Alive
    /\ \A p \in Closers : closePc[p] = "returned"

\* C7: Idle, Running, Closed as the place Session.run is at.
SessionState ==
    IF sPc \in {"select", "sendEndCtx", "sendEndClosed"} THEN 0
    ELSE IF sPc \in {"retrieve", "recv", "forward", "sendFinalEnd"} THEN 1
    ELSE 2

\* C7: a Session never moves back to an earlier state, consumes at most one
\* message and calls Memory.Retrieve and Agent.Run at most once, so a
\* second In() is never delivered.
C7_NeverReused ==
    [][/\ SessionState' >= SessionState
       /\ consumed' <= 1 /\ retrieveCalls' <= 1 /\ agentRuns' <= 1
       /\ consumed' + inPending' <= inIssued']_vars

\* C7 witness: a second In() is blocked while the Session, having run the
\* Agent on the first message, is closing.
C7_Witness ==
    /\ Alive /\ inIssued = 2 /\ inPending = 1
    /\ consumed = 1 /\ agentRuns = 1
    /\ sPc = "deferClose"

\* C8: whatever the model does, the never-stopping model included, the
\* loop of SkillContextRunner returns, and it has made at most
\* maxSkillLoops model calls at every moment.
C8_SkillLoopTerminates ==
    /\ [](skRet.calls <= maxSkillLoops /\ skI <= maxSkillLoops)
    /\ <>(skPc = "returned")

\* C8 witness: the model asked for a tool on every round and the loop has
\* returned at the ceiling.
C8_Witness ==
    /\ skPc = "returned"
    /\ skScript.final = "tools"
    /\ skRet.calls = maxSkillLoops
    /\ skRet.msg = ExceededIterations

\* C9: once a skill has returned the 'exceeded max loop iterations' error
\* and Run has finished its work, Run has sent an Error Response.  With a
\* second skill selected the code only logs the error and sends the
\* summary of the other results as PartialText.
C9_CeilingReportedAsError ==
    (/\ aPc \in {"deferEnd", "done"}
     /\ \E id \in CallIds : kRet[id] = [msg |-> ExceededIterations, err |-> TRUE])
        => Count(agentSent, "error") = 1

\* C10: the tool calls that are the first of their skill name, in order.
FirstOccurrences(calls) ==
    SubSeqAt(calls, {i \in 1..Len(calls) :
                       \A j \in 1..(i - 1) : calls[j].name # calls[i].name})

\* C10: no two goroutines of one Run run the same skill.
RunAtMostOnce ==
    \A i, j \in 1..Len(completion.toolCalls) :
        LET ci == completion.toolCalls[i]
            cj == completion.toolCalls[j]
        IN  (i # j /\ kPc[ci.id] # "none" /\ kPc[cj.id] # "none") => ci.name # cj.name

InvokedSkills == {i \in CallIds : kPc[i] # "none"}

\* C11: when Run is about to send its final PartialText, one invoked skill
\* means no synthesis call and that skill's result as the content, several
\* mean one synthesis call whose output is the content.  The code decides
\* on the number of tool calls of the completion, so one skill selected
\* together with an unknown name is summarised.
C11_FinalizationBySkillCount ==
    aPc = "sendResult" =>
        /\ Cardinality(InvokedSkills) = 1 =>
             /\ synthCalls = 0
             /\ \E i \in InvokedSkills : collated = results[i]
        /\ Cardinality(InvokedSkills) > 1 =>
             /\ synthCalls = 1
             /\ collated = SynthText

\* C12: a model call of the Run has failed: the skill-selection call or
\* the synthesis call (aErr holds the provider's error), or a call inside
\* a skill's loop (the skill returned the network error).
ModelCallFailed ==
    \/ aErr \in ErrKinds
    \/ \E id \in CallIds : kRet[id] = [msg |-> NetworkRetry, err |-> TRUE]

\* C12: a Run in which a model call failed has sent exactly one Error
\* Response by the time it is done with its work, with the fixed message
\* when the provider's error is of the content-policy class.  A failure
\* inside a skill's loop is only logged: with several tool calls the Run
\* goes on to the synthesis call and sends its answer.
C12_ModelFailureIsFatal ==
    (aPc \in {"deferEnd", "done"} /\ ModelCallFailed) =>
        /\ Count(agentSent, "error") = 1
        /\ aErr = "ContentPolicyViolationError" =>
             \E i \in 1..Len(agentSent) :
                 agentSent[i] = Response("error", ContentPolicyMessage)

\* The tool messages the history holds for a call id.
ResultsFor(id) == {k \in 1..Len(history) : history[k].id = id}

\* C13: when a round of tool calls is over, the history holds a tool
\* message for every call of the round, the failed ones included.  The
\* goroutine of a failed call sends nil, which the runner skips.
C13_FailureBecomesToolResult ==
    rPc = "done" => \A i \in 1..Len(rCalls) : ResultsFor(rCalls[i].id) # {}

\* C15: a round always ends, and then every call whose tool exists and
\* whose arguments parse has been executed, and every call whose Execute
\* succeeded has its output in the history, whatever its siblings did.
SiblingsDone ==
    rPc = "done" =>
        \A i \in 1..Len(rCalls) :
            /\ ReachesExecute(rCalls[i]) => executed[rCalls[i].id] = 1
            /\ rCalls[i].kind = "ok" =>
                 \E k \in ResultsFor(rCalls[i].id) :
                     history[k] = ToolMessage(<<rCalls[i].text>>, rCalls[i].id)

C15_ErrorsDoNotStopSiblings == []SiblingsDone /\ <>(rPc = "done")

\* C15 witness: a round is over in which one call's Execute returned an
\* error and a sibling's output is in the history.
C15_Witness ==
    /\ rPc = "done"
    /\ \E i, j \in 1..Len(rCalls) :
         /\ rCalls[i].kind \in {"ignorable", "retryable", "other"}
         /\ executed[rCalls[i].id] = 1
         /\ rCalls[j].kind = "ok"
         /\ ResultsFor(rCalls[j].id) # {}

\* C16: no call is executed twice and no call id gets two tool messages.
C16_AtMostOnce ==
    \A id \in ToolIds :
        /\ executed[id] <= 1
        /\ Cardinality(ResultsFor(id)) <= 1

\* C16 witness: a round of several calls is over, each executed once and
\* each with its message in the history.
C16_Witness ==
    /\ rPc = "done" /\ Len(rCalls) >= 2
    /\ Len(history) = Len(rCalls)
    /\ \A i \in 1..Len(rCalls) : executed[rCalls[i].id] = 1

\* C14: the text the claim gives for each class of outcome.
ClaimedText(call) ==
    CASE call.kind \in {"unknownTool", "ignorable", "other"} ->
           <<"Error occurred while running. Do not retry">>
      [] call.kind \in {"badArguments", "retryable"} ->
           <<"Error: ", call.text, ".\nRetry">>
      [] call.kind = "ok" -> <<call.text>>

\* C14: the k-th message of the history is the result of the k-th call of
\* the round and carries the text of the call's class.
C14_TextFollowsErrorClass ==
    /\ Len(history) = rI - 1
    /\ \A k \in 1..Len(history) : history[k].content = ClaimedText(rCalls[k])

\* C14 witness: the loop is over for a round with a RetryableError and a
\* call that got the generic text.
C14_Witness ==
    /\ rPc = "done" /\ Len(history) = 2
    /\ rCalls[1].kind = "retryable"
    /\ rCalls[2].kind \in {"unknownTool", "ignorable", "other"}
    /\ history[1].content # history[2].content

C18_CallsUnderCancelledContext ==
    [][ctxDone =>
         /\ (aPc = "chooseSkills" /\ aPc' # aPc) => aPc' = "handleLLMError"
         /\ \A id \in CallIds :
              (kPc[id] # "done" /\ kPc'[id] = "done") => kRet'[id].err
         /\ tChunks' = tChunks
         /\ synthCalls' # synthCalls => aPc' = "handleLLMError"]_vars

\* C19: the output channel has one producer.  Every Response the caller
\* receives is put there by a send statement of Session.run, one Response
\* per receive; a step of the Agent, of a skill or tool goroutine or of
\* the thought streamer leaves the output as it is and hands its Response
\* to the run loop, which is in its receive; and the run loop sends what
\* it received before it receives again.
C19_SingleProducer ==
    [][/\ outLog' # outLog =>
            /\ sPc \in SendPcs /\ sPc' \notin {sPc, "forward"}
            /\ outLog' = Append(outLog, SessionSendValue)
            /\ UNCHANGED <<aPc, tPc, kPc, agentSent>>
       /\ agentSent' # agentSent =>
            /\ sPc = "recv" /\ sPc' = "forward"
            /\ outLog' = outLog
            /\ Len(agentSent') = Len(agentSent) + 1
            /\ response' = agentSent'[Len(agentSent')]]_vars

\* C19 witness: the Status of a tool goroutine, sent while the thought
\* streamer was at work, has reached the caller between two thoughts'
\* Responses, each whole.
C19_Witness ==
    /\ Alive
    /\ \E i \in 1..Len(outLog) :
         /\ outLog[i] = Response("status", "status")
         /\ i > 1 /\ outLog[i - 1].type \in {"thinking-start", "thinking"}
         /\ i < Len(outLog) /\ outLog[i + 1].type \in {"thinking", "thinking-end"}

\* C20: a clone does not alias its original.  Clone leaves the original as
\* it is and yields its entries; after it, any Add, AddFirst, ReplaceAt or
\* Clear on one of the two lists leaves the entries and the length of the
\* other unchanged.
C20_CloneNeverAliases ==
    [][/\ receiver' = "Clone" =>
            /\ All("h")' = All("h")
            /\ All("c")' = All("h")
       /\ \A ml \in Made :
            (receiver' \in Lists \ {ml}) => All(ml)' = All(ml)]_vars

\* C20 witness: the clone of a list with room left in its array has had an
\* entry replaced and an entry added, and the original holds what it held.
C20_Witness ==
    /\ Made = Lists
    /\ receiver = "c"
    /\ LenOf("h") = MaxMsgs /\ CapOf("h") > LenOf("h")
    /\ LenOf("c") = LenOf("h")
    /\ All("h")[1] # All("c")[1]
    /\ All("h")[MaxMsgs] # All("c")[MaxMsgs]

\* The keys a block holds, in the order in which they came in.
Present(mb) == {k \in Keys : Exists(mb, k)}
InsertionOrder(mb) ==
    CHOOSE order \in [1..Cardinality(Present(mb)) -> Present(mb)] :
        \A i, j \in 1..Cardinality(Present(mb)) :
            i < j => <<order[i], order[j]>> \in cameBefore[mb]

\* The keys Parse renders for a block, in the order of the string.
IsEntry(line) == line.level = 1 /\ line.kind \in {"string", "open"}
RenderedKeys(mb) ==
    LET entries == SelectSeq(Parse(mb), IsEntry)
    IN  [i \in 1..Len(entries) |-> entries[i].name]

\* C21: Parse renders exactly the keys a block holds, in the order in
\* which they came in: an add of a key the block holds keeps its place, a
\* key deleted and added again comes last.
C21_ParseInInsertionOrder ==
    \A mb \in Blocks :
        /\ \A k1, k2 \in Present(mb) :
             k1 # k2 => (<<k1, k2>> \in cameBefore[mb] <=> <<k2, k1>> \notin cameBefore[mb])
        /\ RenderedKeys(mb) = InsertionOrder(mb)

\* C21 witness: A, B and C came in, A was deleted and added again as a
\* block, B was added once more, and Parse renders B, C, A.
C21_Witness ==
    /\ RenderedKeys("root") = <<"B", "C", "A">>
    /\ Items["root"]["A"].valueType = "BlockType"
    /\ lastOp = [op |-> "AddString", block |-> "root", key |-> "B", ret |-> FALSE]

\* C23: the string a Parse returns is the serialization of the whole tree
\* as it was at one instant between the call and the return.  The read
\* lock of a nested block is taken when the loop reaches its key and
\* released after it: two nested blocks are read at two instants, and a
\* block changed after it was rendered, then another before it is, give
\* a string the tree never had.
C23_ParseLinearized ==
    pPc = "returned" => result \in instants

\* C22: membership follows the operations.  An add leaves its key present
\* and a Delete leaves it absent, neither touches the membership of
\* another key or block; Delete returns true exactly when the key was
\* present; a Delete right after a Delete of the same key returns false
\* and changes nothing.
C22_MembershipRoundTrips ==
    [][LET mb == lastOp'.block
           key == lastOp'.key
       IN  /\ \A b \in Blocks, k \in Keys :
                (b # mb \/ k # key) => ((Items'[b][k] # NoItem) <=> Exists(b, k))
           /\ lastOp'.op \in {"AddString", "AddBlock"} => Items'[mb][key] # NoItem
           /\ lastOp'.op = "Delete" =>
                /\ Items'[mb][key] = NoItem
                /\ lastOp'.ret <=> Exists(mb, key)
                /\ (lastOp.op = "Delete" /\ lastOp.block = mb /\ lastOp.key = key) =>
                     /\ ~lastOp'.ret
                     /\ UNCHANGED <<Items, keys>>]_<<Items, keys, lastOp>>

\* C22 witness: of three keys one was deleted; Delete returned true and
\* the key is gone, the other two are where they were.
C22_Witness ==
    /\ lastOp = [op |-> "Delete", block |-> "root", key |-> "B", ret |-> TRUE]
    /\ ~Exists("root", "B")
    /\ keys["root"] = <<"A", "C">>

\* C24: GetConversations returns the messages oldest first: of two
\* messages it returns, the one created first comes first.  The loop walks
\* the conversations from the newest to the oldest and adds as it goes.
C24_OldestFirst ==
    \A i, j \in 1..Len(messageList.Messages) :
        i < j => messageList.Messages[i].content < messageList.Messages[j].content

\* The concatenation of the contents of the PartialText Responses of a
\* sequence, in order.
RECURSIVE PartialTextOf(_)
PartialTextOf(log) ==
    IF log = <<>> THEN <<>>
    ELSE (IF Head(log).type = "partial-text" THEN Head(log).content ELSE <<>>)
           \o PartialTextOf(Tail(log))

\* C25: the user's message is stored before the Agent is invoked; the
\* assistant text is stored after the Agent has finished and is the
\* concatenation of the PartialText Responses the caller got; a failure to
\* store either of them is only logged: the run that returns after it has
\* forwarded everything and its output ends with End.
C25_PersistOrdering ==
    /\ agentInvoked => (stored.user = UserText \/ "user" \in failed)
    /\ stored.user \in {NotStored, UserText}
    /\ stored.assistant # NotStored =>
         /\ agentInvoked /\ agentScript = <<>> /\ held = <<>>
         /\ stored.assistant = PartialTextOf(outUser)
    /\ (runPc = "returned" /\ failed \subseteq {"user", "assistant"} /\ agentInvoked) =>
         /\ agentScript = <<>>
         /\ outUser[Len(outUser)] = AgentEnd
         /\ stored.assistant # NotStored \/ "assistant" \in failed
    /\ (runPc = "returned" /\ ~agentInvoked /\ failed = {}) => outUser = <<AgentEnd>>

\* C25 witness: Session.run has returned after both stores failed, and the
\* caller has two PartialTexts with a thought between them, and the End.
C25_Witness ==
    /\ runner = "Session.run" /\ runPc = "returned"
    /\ failed = {"user", "assistant"}
    /\ Len(outUser) = MaxEmit + 2
    /\ PartialTextOf(outUser) = <<"a", "b", "c">>

\* The same for a run whose stores succeeded.
C25_StoredWitness ==
    /\ runPc = "returned" /\ failed = {}
    /\ stored = [user |-> UserText, assistant |-> <<"a", "b", "c">>]

\* C26: CreateConversation for a session id that has a conversation returns
\* an error and leaves the table as it was; FinishConversation for a session
\* id without a conversation returns an error and stores nothing; and a
\* call that returns no error has met its precondition.
C26_PreconditionsEnforced ==
    [][LET sid == lastCall'.session_id
       IN  /\ (lastCall'.op = "CreateConversation" /\ table[sid] # NoRow) =>
                 lastCall'.err # "none" /\ table' = table
           /\ (lastCall'.op = "FinishConversation" /\ table[sid] = NoRow) =>
                 lastCall'.err # "none" /\ table' = table
           /\ lastCall'.err # "none" => table' = table]_<<table, lastCall>>

\* C26 witness: a second CreateConversation for a finished conversation was
\* rejected and the row is intact, while the other session id, whose
\* FinishConversation can only have been rejected, has no row.
C26_Witness ==
    /\ lastCall = [op |-> "CreateConversation", session_id |-> "s1",
                   err |-> "failed to create conversation"]
    /\ table["s1"] = [user_message |-> "u1", assistant_message |-> "a1"]
    /\ table["s2"] = NoRow

\* A FinishConversation without a conversation has been rejected.
C26_FinishWitness ==
    /\ lastCall = [op |-> "FinishConversation", session_id |-> "s2",
                   err |-> "no conversation found"]
    /\ table["s2"] = NoRow
    /\ table["s1"] # NoRow

\* A skill NewAgent must refuse.
Incomplete(skill) == skill.Description = "" \/ skill.SystemPrompt = ""

\* C27: NewAgent panics if and only if one of the given skills has an empty
\* Description or an empty SystemPrompt, and names such a skill; otherwise
\* it returns an Agent with exactly the given skills in the given order.
C27_NewAgentFailsFast ==
    ctorPc # "call" =>
      IF \E k \in 1..Len(givenSkills) : Incomplete(givenSkills[k])
        THEN /\ ctorPc = "panicked" /\ agent = NoAgent
             /\ \E k \in 1..Len(givenSkills) :
                  /\ Incomplete(givenSkills[k])
                  /\ panicMsg[2] = givenSkills[k].Name
        ELSE /\ ctorPc = "returned" /\ panicMsg = <<>>
             /\ agent.skills = givenSkills

\* C27 witness: the only flaw is the empty SystemPrompt of the last skill,
\* and NewAgent has panicked.
C27_Witness ==
    /\ ctorPc = "panicked"
    /\ Len(givenSkills) = MaxSkills
    /\ \A k \in 1..Len(givenSkills) : givenSkills[k].Description # ""
    /\ \A k \in 1..(Len(givenSkills) - 1) : givenSkills[k].SystemPrompt # ""
    /\ panicMsg[3] = "is missing a SystemPrompt"

\* An Agent with two complete skills of different names has been returned.
C27_ReturnedWitness ==
    /\ ctorPc = "returned"
    /\ Len(agent.skills) = MaxSkills
    /\ agent.skills[1].Name = "t" /\ agent.skills[MaxSkills].Name = "s"

\* The lists of the round that exist, and what the canonical history holds.
RoundMade == {o \in RoundLists : lists[o] # NoList}
CanonicalEntries == EntriesIn(Cur, Canonical)

\* C28: each skill goroutine, and the thought streamer, works on a list of
\* its own in an array of its own; a list holds what the canonical history
\* held when it was cloned and the entries of its own goroutine only; the
\* canonical history holds no entry of a skill's loop, and it changes only
\* after every skill goroutine is done.
C28_SkillsIsolated ==
    /\ \A o1, o2 \in RoundMade : o1 # o2 => lists[o1].array # lists[o2].array
    /\ \A o \in RoundMade \ {Canonical} :
         \A k \in 1..lists[o].len : EntriesIn(Cur, o)[k].of \in {Canonical, o}
    /\ \A k \in 1..Len(CanonicalEntries) :
         CanonicalEntries[k].kind \in {"user", "selection", "skill result"}
    /\ CanonicalEntries # <<Msg("user", Canonical)>> =>
         /\ mPc \in {"collate", "done"}
         /\ \A g \in SkillCalls : sgPc[g] \in {"none", "done"}

\* C28 witness: two skills have gone through their loops, one with an
\* instruction, while the canonical history still holds the user's message
\* alone and Run waits.
C28_Witness ==
    /\ mPc = "wait"
    /\ sgPc[1] = "done" /\ sgPc[MaxCalls] = "return"
    /\ lists[1].len = 5 /\ lists[MaxCalls].len = 4
    /\ thPc = "done"
    /\ CanonicalEntries = <<Msg("user", Canonical)>>

\* C29: after the merge the canonical history is what it was, then the
\* selection message, then one result message for each tool call of the
\* selection, in some order.
C29_OneResultPerToolCall ==
    mPc = "done" =>
      /\ Len(CanonicalEntries) = 2 + Len(toolsToCall)
      /\ CanonicalEntries[2] = SelectionMessage
      /\ \A g \in 1..Len(toolsToCall) :
           \E k \in 3..Len(CanonicalEntries) :
               CanonicalEntries[k] = Msg("skill result", g)

\* The calls of the turn other than stop, and a turn that has a stop call
\* together with others.
TrailingCalls == LET IsOther(tc) == tc.kind # "stop" IN SelectSeq(turnCalls, IsOther)
StopWithOthers ==
    /\ \E k \in 1..Len(turnCalls) : turnCalls[k].kind = "stop"
    /\ TrailingCalls # <<>>

\* C30: when the runner has returned from a turn with a stop call and other
\* tool calls, every other call has its tool message in the history, and
\* the loop never goes on to another model call after such a turn.
C30_StopAfterTrailingCalls ==
    (stPc \notin {"separate", "round"} /\ StopWithOthers) =>
        /\ stPc = "returned"
        /\ \A i \in 1..Len(TrailingCalls) : ResultsFor(TrailingCalls[i].id) # {}

\* What the code does keep of C30: after a turn with a stop call the runner
\* returns without another model call, every other call that has a tool and
\* arguments that parse has been executed once, and the output of every
\* call that succeeded is in the history.
C30_SucceededCallsFolded ==
    (stPc \notin {"separate", "round"} /\ StopWithOthers) =>
        /\ stPc = "returned"
        /\ \A i \in 1..Len(TrailingCalls) :
             /\ ReachesExecute(TrailingCalls[i]) => executed[TrailingCalls[i].id] = 1
             /\ TrailingCalls[i].kind = "ok" =>
                  \E k \in ResultsFor(TrailingCalls[i].id) :
                      history[k] = ToolMessage(<<TrailingCalls[i].text>>, TrailingCalls[i].id)

\* The runner has returned from a turn with stop and calls that all
\* succeeded, their outputs in the history after the assistant message.
C30_SucceededWitness ==
    /\ stPc = "returned" /\ StopWithOthers
    /\ Len(TrailingCalls) = MaxTools
    /\ \A i \in 1..Len(TrailingCalls) : TrailingCalls[i].kind = "ok"
    /\ Len(history) = MaxTools + 1

\* The assistant messages of the skill's history.
AssistantEntries == {k \in 1..Len(history) : "calls" \in DOMAIN history[k]}

\* C31: no assistant message of the history has a tool call named stop; a
\* turn with tool calls other than stop has its assistant message in the
\* history from the separation on, and the tool calls of that message are
\* the other calls of the turn in the order the model gave them.
C31_StopNeverInHistory ==
    /\ \A k \in AssistantEntries :
         /\ \A i \in 1..Len(history[k].calls) : history[k].calls[i].kind # "stop"
         /\ history[k].calls = TrailingCalls
    /\ (stPc # "separate" /\ TrailingCalls # <<>>) => AssistantEntries = {1}

\* C31 witness: the turn had a stop call between two other calls, and the
\* history holds the assistant message with the two.
C31_Witness ==
    /\ Len(turnCalls) = MaxTools + 1
    /\ turnCalls[2].kind = "stop"
    /\ AssistantEntries = {1}
    /\ Len(history[1].calls) = MaxTools

\* C32: the k-th tool message the sequential loop has added answers the
\* k-th call of the turn and carries that call's id, whatever the outcome
\* of the call; none carries the id of the skill's own call.
C32_ResultsCarryCallIds ==
    \A k \in 1..Len(history) :
        /\ history[k].id = rCalls[k].id
        /\ history[k].id # SkillToolCallID

\* The goroutines of the round that have sent their value and are done.
DoneGoroutines == {g \in ToolIds : gPc[g] = "done"}

\* No goroutine that is about to send finds the buffer full or the channel
\* closed; the buffer holds at most one value per finished goroutine; the
\* channel is closed only when every goroutine has finished.
ResultsChannelSized ==
    /\ \A g \in ToolIds :
         gPc[g] = "send" => /\ Len(resultsChan) < ResultsCap(rCalls)
                            /\ ~chanClosed
    /\ Len(resultsChan) <= Cardinality(DoneGoroutines)
    /\ Cardinality(DoneGoroutines) <= Len(rCalls)
    /\ chanClosed => \A g \in ToolIds : gPc[g] \in {"none", "done"}
    /\ rPc = "done" => chanClosed /\ resultsChan = <<>>

\* C33: the results channel is sized to the calls, so that no goroutine
\* blocks on its send and none sends after the close, which comes after the
\* last goroutine; and once every goroutine is past Execute the collecting
\* loop ends.
C33_NoProducerBlocks ==
    /\ []ResultsChannelSized
    /\ (\A g \in 1..Len(rCalls) : gPc[g] \in {"send", "done"}) ~> (rPc = "done")

\* C33 witness: every goroutine of a full round has sent before the
\* collecting loop received anything, and the channel is still open.
C33_Witness ==
    /\ Len(rCalls) = MaxTools
    /\ Len(resultsChan) = MaxTools
    /\ ~chanClosed
    /\ rPc = "spawn"

\* C34: in every block the ordered key list has no key twice and holds
\* exactly the keys of the Items map, after any sequence of AddString,
\* AddBlock and Delete, a key passing from a string to a block and back
\* included.
C34_KeysMatchItems ==
    \A mb \in Blocks :
        /\ \A i, j \in 1..Len(keys[mb]) : keys[mb][i] = keys[mb][j] => i = j
        /\ {keys[mb][i] : i \in 1..Len(keys[mb])} = {k \in Keys : Exists(mb, k)}

\* C34 witness: a Delete has just removed a key from a root that still holds
\* a block and a string under its two other keys.
C34_Witness ==
    /\ lastOp.op = "Delete" /\ lastOp.ret = TRUE
    /\ Len(keys["root"]) = 2
    /\ \E k1, k2 \in Keys :
         /\ Items["root"][k1].valueType = "BlockType"
         /\ Items["root"][k2].valueType = "StringType"

\* C35: when Agent.Run has returned an error to Pod.run, the run goes on to
\* return, with the Error Response followed by End as the last of its
\* output.
C35_AgentErrorEndsRun ==
    ("agent" \in failed) ~>
        (/\ runPc = "returned"
         /\ Len(outUser) >= 2
         /\ outUser[Len(outUser)] = AgentEnd
         /\ outUser[Len(outUser) - 1].type = "error")

\* The conversations a call of GetConversations took, as a set of indices.
TakenIndices == {messageList.indices[k] : k \in 1..Len(messageList.indices)}

\* C36: a call of GetConversations with limit and offset not below 0 does
\* not index outside the stored conversations, takes at most `limit`
\* conversations, none of them among the `offset` newest, returns the
\* messages of those it took, and returns the empty list when the offset is
\* at least the number of stored conversations.
C36_WindowWithinBounds ==
    messageList.called =>
        /\ ~messageList.panicked
        /\ TakenIndices \subseteq 0..(messageList.stored - 1)
        /\ Cardinality(TakenIndices) = Len(messageList.indices)
        /\ Len(messageList.indices) <= messageList.limit
        /\ \A i \in TakenIndices : i < messageList.stored - messageList.offset
        /\ Len(messageList.Messages) <= 2 * Len(messageList.indices)
        /\ messageList.offset >= messageList.stored => messageList.Messages = <<>>

\* C36 witness: with two conversations stored, both with a user and an
\* assistant message, a call with limit 2 and offset 1 took the older one
\* alone.
C36_Witness ==
    /\ messageList.called
    /\ messageList.stored = 2
    /\ messageList.limit = 2 /\ messageList.offset = 1
    /\ messageList.indices = <<0>>
    /\ Len(messageList.Messages) = 2

\* A call whose limit and offset are both the largest int, so that the
\* subtraction wraps around, returned the empty list.
C36_WrapWitness ==
    /\ messageList.called /\ messageList.stored > 0
    /\ messageList.limit = MaxInt /\ messageList.offset = MaxInt
    /\ messageList.Messages = <<>>

\* C37: no goroutine ever sends on a closed channel: under every interleaving
\* of the caller's In(), Out() and Close() with Session.run, Agent.Run and
\* the thought streamer, neither an In() nor a send of Session.run meets a
\* channel that Close has closed.
SendOnClosedPanics ==
    {"In: send on closed channel", "Session.run: send on closed channel"}

C37_NoSendOnClosedChannel == panicked \notin SendOnClosedPanics

\* C38: when the caller calls In() once, reads Out() until its first End and
\* then stops reading, Session.run, Agent.Run, the thought streamer and the
\* skill goroutines all terminate in the end and the Session is Closed.
GoroutinesTerminated ==
    /\ sPc = "done"
    /\ aPc \in {"idle", "done"}
    /\ tPc \in {"idle", "done"}
    /\ \A i \in CallIds : kPc[i] \in {"none", "done"}

SessionClosed == once = "done" /\ inClosed /\ outClosed

C38_DrainedSessionTerminates ==
    (inIssued = 1) ~> (GoroutinesTerminated /\ SessionClosed)

====
